---- MODULE Spec2Model ----
(***************************************************************************)
(* SwiftTab (holmns/safari-mru): MRU tab switching.                        *)
(*                                                                         *)
(* The module models src/extension/src/background.ts:                      *)
(*   - mruStore: per-window recency stacks held in a Map of arrays, the    *)
(*     single-flight load, the debounced persistence timer;                *)
(*   - the replacement tracker and the host event listeners;               *)
(*   - activateAt and the mru-finalize message handler;                    *)
(*   - faviconStore: the two cache namespaces and their pending maps;      *)
(*   - the HUD key handlers (keydown / keyup / reveal timer), also those   *)
(*     of content.ts and src/content.js (blur listener);                   *)
(*   - getHudItems and the finalize of a snapshot index.                   *)
(*                                                                         *)
(* JavaScript is single threaded: a handler runs to its next await of a    *)
(* host call (storage, tabs, windows, fetch) or timer without being        *)
(* interrupted, so every action below is one such synchronous section.     *)
(* Arrays are objects: a suspended backfill keeps the array it read before *)
(* its await, whether or not the Map still holds it.                       *)
(***************************************************************************)
EXTENDS Integers, Sequences, FiniteSets, Bags, TLC

(***************************************************************************)
(* Bounds of the model.                                                    *)
(***************************************************************************)
\* async continuations (calls waiting for the load, suspended backfills,
\* a running seedAll) that may be pending at once
MaxPending == 1

\* the largest index a finalize message carries
MaxIndex == 3

\* resolve calls of the favicon store that may be in progress at once
MaxResolving == 2

\* how far the clock of the favicon store runs, in steps of CACHE_TTL_MS
MaxClock == 1

\* the most items a snapshot holds
MaxItems == 3

\* non-repeat presses of the chord during one hold of the modifier
MaxPresses == 3

\* snapshot requests of the HUD that may be in flight at once
MaxRequests == 2

\* the largest entry cap the cache maps are pruned to when the cap is varied
MaxCap == 2

\* storage writes in flight at once
MaxWrites == 2

\* flushPersist calls waiting at once
MaxFlushes == 1

\* host events delivered in one run
MaxEvents == 3

WindowIds == {1, 2}
\* the tab ids of the model (the ids of the specification's scenario)
TabIds == {3, 5, 7}

\* a stored value that is not an integer (sanitizeStack drops it)
NotInt == 0

(***************************************************************************)
(* Arrays (0-based positions, as in the source).                           *)
(***************************************************************************)
Min(a, b) == IF a < b THEN a ELSE b
Max(a, b) == IF a > b THEN a ELSE b
Range(s) == {s[i] : i \in DOMAIN s}
NoDup(s) == \A i, j \in DOMAIN s : i # j => s[i] # s[j]

\* Array.prototype.indexOf: first position of x, -1 when absent
IndexOf(s, x) ==
  IF \E i \in DOMAIN s : s[i] = x
  THEN (CHOOSE i \in DOMAIN s : s[i] = x /\ \A j \in 1..(i - 1) : s[j] # x) - 1
  ELSE -1

\* Array.prototype.includes
Includes(s, x) == \E i \in DOMAIN s : s[i] = x

\* stack.splice(i, 1)
SpliceOut(s, i) == SubSeq(s, 1, i) \o SubSeq(s, i + 2, Len(s))

\* stack.splice(i, 0, x): the start is clamped to the length
SpliceIn(s, i, x) ==
  LET k == Min(i, Len(s)) IN SubSeq(s, 1, k) \o <<x>> \o SubSeq(s, k + 1, Len(s))

\* stack.unshift(x)
Unshift(s, x) == <<x>> \o s

\* the entries of s other than x, in order
Without(s, x) == SelectSeq(s, LAMBDA y : y # x)

\* the elements of a set of numbers as a list, smallest first / largest first
RECURSIVE Ascending(_)
Ascending(S) ==
  IF S = {} THEN <<>>
  ELSE LET m == CHOOSE x \in S : \A y \in S : x <= y IN <<m>> \o Ascending(S \ {m})

RECURSIVE Descending(_)
Descending(S) ==
  IF S = {} THEN <<>>
  ELSE LET m == CHOOSE x \in S : \A y \in S : x >= y IN <<m>> \o Descending(S \ {m})

(***************************************************************************)
(* mruStore                                                                *)
(*                                                                         *)
(* The Map `stacks` holds one array per known window.  `stacks[w]` is the  *)
(* contents of the array the Map holds for w and `known` the Map's keys.   *)
(* An array the Map has let go of (stacks.delete, or stacks.set with a new *)
(* array) while a suspended backfill still holds it lives on in `detached`.*)
(***************************************************************************)
VARIABLES
  stacks,          \* contents of the Map's array for each window (<<>> when none)
  known,           \* the Map's keys: windows w with stacks.has(w)
  detached,        \* arrays no longer in the Map that a suspended backfill holds
  loaded,          \* mruStore.loaded
  loadPromise,     \* mruStore.loadPromise is set (the storage read is pending)
  persistTimer,    \* mruStore.persistTimer is set
  persistPromise,  \* mruStore.persistPromise: the write it waits for (NoWrite when null)
  seedStage,       \* performSeedAll: "none", "current" or "all" (the await it is at)
  waiters,         \* operations suspended at `await ensureLoaded()`, in call order
  tasks,           \* bag of backfills suspended at `await chrome.tabs.query`
  lastOp           \* history: the store operation that completed last

storeVars == <<stacks, known, detached, loaded, loadPromise, persistTimer,
               persistPromise, seedStage, waiters, tasks, lastOp>>

\* persistPromise === null
NoWrite == 0

\* a backfill's `stack` is the Map's current array of its window (Live) or
\* a detached array
Live == 0
DetIds == 1..MaxPending

\* the store's synchronous state, threaded through the operations
Store == [stacks |-> stacks, known |-> known, detached |-> detached,
          tasks |-> tasks, timer |-> persistTimer]

\* window w's stack as getStack's caller sees it
Stack(w) == stacks[w]

BagOf(e, n) == [x \in {e} |-> n]

\* the Map lets go of window w's array: suspended backfills that read it
\* before keep the old array, which is no longer the Map's
detach(st, w) ==
  LET old == [w |-> w, ref |-> Live]
  IN IF ~BagIn(old, st.tasks) THEN st
     ELSE LET used == {t.ref : t \in BagToSet(st.tasks)}
              d == CHOOSE x \in DetIds \ used : \A y \in DetIds \ used : x <= y
          IN [st EXCEPT
                !.detached[d] = st.stacks[w],
                !.tasks = (st.tasks (-) BagOf(old, CopiesIn(old, st.tasks)))
                          (+) BagOf([w |-> w, ref |-> d], CopiesIn(old, st.tasks))]

\* a detached array no suspended backfill holds any more is garbage
Collect(det, tsk) ==
  [d \in DetIds |-> IF d \in {t.ref : t \in BagToSet(tsk)} THEN det[d] ELSE <<>>]

RECURSIVE sanitizeFrom(_, _, _)
sanitizeFrom(input, i, acc) ==
  IF i > Len(input) THEN acc
  ELSE IF input[i] = NotInt \/ Includes(acc, input[i])
       THEN sanitizeFrom(input, i + 1, acc)
       ELSE sanitizeFrom(input, i + 1, Append(acc, input[i]))

sanitizeStack(input) == sanitizeFrom(input, 1, <<>>)

schedulePersist(st) == [st EXCEPT !.timer = TRUE]

ensure(st, w) ==
  IF w \in st.known THEN st
  ELSE [st EXCEPT !.known = @ \cup {w}, !.stacks[w] = <<>>]

\* touch that takes out the entry before the one it found
touchOffByOne(st, w, t) ==
  LET s1 == ensure(st, w)
      stack == s1.stacks[w]
      existing == IndexOf(stack, t)
  IN IF existing = 0 THEN s1
     ELSE schedulePersist(
            [s1 EXCEPT !.stacks[w] =
               Unshift(IF existing # -1 THEN SpliceOut(stack, existing - 1) ELSE stack, t)])

\* touch, after its `await ensureLoaded()`
touch(st, w, t) ==
  LET s1 == ensure(st, w)
      stack == s1.stacks[w]
      existing == IndexOf(stack, t)
  IN IF existing = 0 THEN s1
     ELSE schedulePersist(
            [s1 EXCEPT !.stacks[w] =
               Unshift(IF existing # -1 THEN SpliceOut(stack, existing) ELSE stack, t)])

\* append without `if (stack.includes(tabId)) return`
appendAlways(st, w, t) ==
  LET s1 == ensure(st, w)
  IN schedulePersist([s1 EXCEPT !.stacks[w] = Append(s1.stacks[w], t)])

\* append, after its `await ensureLoaded()`
append(st, w, t) ==
  LET s1 == ensure(st, w)
      stack == s1.stacks[w]
  IN IF Includes(stack, t) THEN s1
     ELSE schedulePersist([s1 EXCEPT !.stacks[w] = Append(stack, t)])

\* remove, after its `await ensureLoaded()`
remove(st, w, t) ==
  IF w \notin st.known THEN st
  ELSE LET stack == st.stacks[w]
           idx == IndexOf(stack, t)
       IN IF idx = -1 THEN st
          ELSE LET s1 == [st EXCEPT !.stacks[w] = SpliceOut(stack, idx)]
               IN schedulePersist(
                    IF Len(s1.stacks[w]) = 0
                    THEN [detach(s1, w) EXCEPT !.known = @ \ {w}]
                    ELSE s1)

\* replace's loop: splice out every occurrence of x
RECURSIVE spliceAll(_, _)
spliceAll(s, x) ==
  IF IndexOf(s, x) = -1 THEN s ELSE spliceAll(SpliceOut(s, IndexOf(s, x)), x)

\* replace's return value
replaceResult(st, w, from) == IndexOf(st.stacks[w], from) # -1

\* replace, after its `await ensureLoaded()`
replace(st, w, from, to) ==
  LET s1 == ensure(st, w)
      stack == s1.stacks[w]
      idx == IndexOf(stack, from)
  IN IF idx = -1 THEN s1
     ELSE schedulePersist(
            [s1 EXCEPT !.stacks[w] =
               SpliceIn(spliceAll(SpliceOut(stack, idx), to), idx, to)])

\* the loop `for (tab of tabs) if (!stack.includes(tab.id)) stack.push(tab.id)`
RECURSIVE pushMissing(_, _, _)
pushMissing(stack, tabs, i) ==
  IF i > Len(tabs) THEN stack
  ELSE pushMissing(IF Includes(stack, tabs[i]) THEN stack ELSE Append(stack, tabs[i]),
                   tabs, i + 1)

\* backfill after chrome.tabs.query resolved: pushes into the array it read
\* before the await, whether or not the Map still holds that array
backfillPush(st, task, tabs) ==
  LET before == IF task.ref = Live THEN st.stacks[task.w] ELSE st.detached[task.ref]
      pushed == pushMissing(before, tabs, 1)
  IN IF pushed = before THEN st
     ELSE schedulePersist(
            IF task.ref = Live
            THEN [st EXCEPT !.stacks[task.w] = pushed]
            ELSE [st EXCEPT !.detached[task.ref] = pushed])

\* performSeedAll after its window query: ensure, then push the window's tabs
seedWindow(st, w, tabs) == backfillPush(ensure(st, w), [w |-> w, ref |-> Live], tabs)

\* getStack: ensure(windowId), then the Map's own array
getStack(st, w) == ensure(st, w)

\* loadStacks' storage callback for one window's stored list
loadWindow(st, w, raw) ==
  LET sanitized == sanitizeStack(raw)
  IN IF Len(sanitized) = 0 THEN st
     ELSE IF w \in st.known /\ Len(st.stacks[w]) > 0 THEN st
     ELSE [detach(st, w) EXCEPT !.known = @ \cup {w}, !.stacks[w] = sanitized]

RECURSIVE loadFrom(_, _, _)
loadFrom(st, doc, ws) ==
  IF ws = {} THEN st
  ELSE LET w == CHOOSE x \in ws : \A y \in ws : x <= y
       IN loadFrom(loadWindow(st, w, doc[w]), doc, ws \ {w})

\* loadStacks over a stored document (window -> stored list)
loadStacks(st, doc) == loadFrom(st, doc, WindowIds)

(***************************************************************************)
(* The store's operations as steps.  A call made before the load finished  *)
(* waits at `await ensureLoaded()`; the waiting calls resume in call order *)
(* in the microtasks that follow the load, before any other host callback. *)
(***************************************************************************)
NoOp == [op |-> "init", w |-> 0, t |-> 0, to |-> 0, was |-> -1, wasTo |-> -1,
         ret |-> FALSE, tabs |-> <<>>]
OpRec(o, w, t, to) == [op |-> o, w |-> w, t |-> t, to |-> to]

\* history record of operation o, taken when its synchronous section runs
Did(o) ==
  [op |-> o.op, w |-> o.w, t |-> o.t, to |-> o.to,
   was |-> IF o.t \in TabIds THEN IndexOf(Stack(o.w), o.t) ELSE -1,
   wasTo |-> IF o.to \in TabIds THEN IndexOf(Stack(o.w), o.to) ELSE -1,
   ret |-> o.op = "replace" /\ replaceResult(Store, o.w, o.t),
   tabs |-> <<>>]

Pending ==
  Len(waiters) + BagCardinality(tasks) + (IF seedStage = "none" THEN 0 ELSE 1)

\* no continuation of an earlier callback is still queued as a microtask
Drained == loaded => waiters = <<>>

\* the store's variables take the values of st
Becomes(st) ==
  /\ stacks' = st.stacks
  /\ known' = st.known
  /\ tasks' = st.tasks
  /\ detached' = Collect(st.detached, st.tasks)
  /\ persistTimer' = st.timer

StartBackfill(st, w) ==
  [st EXCEPT !.tasks = @ (+) BagOf([w |-> w, ref |-> Live], 1)]

\* the section of operation o that follows its `await ensureLoaded()`
RunOp(o) ==
  /\ Becomes(CASE o.op = "touch" -> touch(Store, o.w, o.t)
               [] o.op = "append" -> append(Store, o.w, o.t)
               [] o.op = "remove" -> remove(Store, o.w, o.t)
               [] o.op = "replace" -> replace(Store, o.w, o.t, o.to)
               [] o.op = "backfill" -> StartBackfill(ensure(Store, o.w), o.w)
               [] OTHER -> Store)
  /\ seedStage' = IF o.op = "seedAll" /\ seedStage = "none" THEN "current" ELSE seedStage

\* a call of a store operation
Call(o) ==
  /\ Drained
  /\ IF loaded
     THEN /\ (o.op = "backfill" \/ (o.op = "seedAll" /\ seedStage = "none"))
               => Pending < MaxPending
          /\ RunOp(o)
          /\ UNCHANGED waiters
     ELSE /\ Pending < MaxPending
          /\ waiters' = Append(waiters, o)
          /\ UNCHANGED <<stacks, known, detached, persistTimer, seedStage, tasks>>
  /\ UNCHANGED <<loaded, loadPromise, persistPromise>>

Touch(w, t) == Call(OpRec("touch", w, t, 0))
AppendTab(w, t) == Call(OpRec("append", w, t, 0))
Remove(w, t) == Call(OpRec("remove", w, t, 0))
Replace(w, from, to) == Call(OpRec("replace", w, from, to))
Backfill(w) == Call(OpRec("backfill", w, 0, 0))
SeedAll == Call(OpRec("seedAll", 0, 0, 0))

\* getStack is synchronous: it does not wait for the load
GetStack(w) ==
  /\ Drained
  /\ Becomes(getStack(Store, w))
  /\ UNCHANGED <<loaded, loadPromise, persistPromise, seedStage, waiters>>

\* the first waiting call resumes
ResumeWaiter ==
  /\ loaded
  /\ waiters # <<>>
  /\ RunOp(Head(waiters))
  /\ waiters' = Tail(waiters)
  /\ UNCHANGED <<loaded, loadPromise, persistPromise>>

\* storageArea.get calls back with the stored document
LoadDone(doc) ==
  /\ loadPromise
  /\ Becomes(loadStacks(Store, doc))
  /\ loaded' = TRUE
  /\ loadPromise' = FALSE
  /\ UNCHANGED <<persistPromise, seedStage, waiters>>

\* chrome.tabs.query resolves for a suspended backfill
BackfillDone(task, tabs) ==
  /\ Drained
  /\ BagIn(task, tasks)
  /\ Becomes([backfillPush(Store, task, tabs) EXCEPT !.tasks = @ (-) BagOf(task, 1)])
  /\ UNCHANGED <<loaded, loadPromise, persistPromise, seedStage, waiters>>

\* performSeedAll: chrome.windows.getCurrent resolves with a window that has an id
SeedCurrentDone(w, tabs) ==
  /\ Drained
  /\ seedStage = "current"
  /\ Becomes(seedWindow(Store, w, tabs))
  /\ seedStage' = "none"
  /\ UNCHANGED <<loaded, loadPromise, persistPromise, waiters>>

\* performSeedAll: chrome.windows.getCurrent throws or gives no id, and
\* chrome.windows.getAll is asked
SeedCurrentFailed ==
  /\ Drained
  /\ seedStage = "current"
  /\ seedStage' = "all"
  /\ UNCHANGED <<stacks, known, detached, tasks, persistTimer, loaded, loadPromise,
                 persistPromise, waiters>>

\* performSeedAll: chrome.windows.getAll resolves and its first window has an id
SeedFirstDone(w, tabs) ==
  /\ Drained
  /\ seedStage = "all"
  /\ Becomes(seedWindow(Store, w, tabs))
  /\ seedStage' = "none"
  /\ UNCHANGED <<loaded, loadPromise, persistPromise, waiters>>

\* performSeedAll: chrome.windows.getAll lists no window (or one without id)
SeedFirstNone ==
  /\ Drained
  /\ seedStage = "all"
  /\ seedStage' = "none"
  /\ UNCHANGED <<stacks, known, detached, tasks, persistTimer, loaded, loadPromise,
                 persistPromise, waiters>>

\* LoadFailed without the finally of ensureLoaded
LoadFailedUnmarked ==
  /\ loadPromise
  /\ loadPromise' = FALSE
  /\ UNCHANGED <<stacks, known, detached, tasks, persistTimer, persistPromise,
                 seedStage, waiters, loaded>>

\* storageArea.get calls back with chrome.runtime.lastError set
LoadFailed ==
  /\ loadPromise
  /\ loaded' = TRUE
  /\ loadPromise' = FALSE
  /\ UNCHANGED <<stacks, known, detached, tasks, persistTimer, persistPromise,
                 seedStage, waiters>>

\* stored documents the load may find: lists with repeated and non-integer entries
StoredDocs ==
  { [w \in WindowIds |-> IF w = 1 THEN <<5, 3, 5, 7>> ELSE <<NotInt>>],
    [w \in WindowIds |-> IF w = 1 THEN <<7, NotInt, 7>> ELSE <<3, 3, 5>>] }

\* what chrome.tabs.query / a populated window can list: any set of tabs, in
\* the order of their ids or (all of them) in the opposite order
TabLists == {Ascending(S) : S \in SUBSET TabIds} \cup {Descending(TabIds)}

StoreInit ==
  /\ stacks = [w \in WindowIds |-> <<>>]
  /\ known = {}
  /\ detached = [d \in DetIds |-> <<>>]
  /\ loaded = FALSE
  /\ loadPromise = TRUE
  /\ persistTimer = FALSE
  /\ persistPromise = NoWrite
  /\ seedStage = "none"
  /\ waiters = <<>>
  /\ tasks = EmptyBag
  /\ lastOp = NoOp

(***************************************************************************)
(* The background router: the tab event listeners, the replacement tracker *)
(* and the mru-finalize message handler.  When the store is loaded, a      *)
(* listener runs to its first await of a host call in one step; before     *)
(* that, its store call waits in `waiters` and what the listener does      *)
(* after the call (`after`) runs behind the resumed calls (`conts`).       *)
(***************************************************************************)
VARIABLES
  pending,   \* createReplacementTracker's Set of replaced tab ids
  gets,      \* onReplaced handlers suspended at `await chrome.tabs.get(addedTabId)`
  after,     \* for each entry of waiters, what its listener does once the call returns
  conts,     \* listeners' continuations queued behind the resumed calls
  fin,       \* the mru-finalize handler in flight
  out        \* what the listener or handler that finished in the last step did

routerVars == <<pending, gets, after, conts, fin, out>>

\* `undefined` for a tab id and for a window id
NoTab == 0
NoWin == 0

\* the remainder operator of JavaScript (sign of the dividend)
Rem(a, b) == IF a >= 0 THEN a % b ELSE -((-a) % b)

\* finalize messages: { index }, { } and { index, tabId }
NoMsg == [index |-> 0, hasIndex |-> FALSE, tabId |-> NoTab]
FinalizeMsgs ==
  {[index |-> i, hasIndex |-> TRUE, tabId |-> NoTab] : i \in -1..MaxIndex}
    \cup {NoMsg}
    \cup {[index |-> 0, hasIndex |-> TRUE, tabId |-> t] : t \in TabIds}

\* activateAt without `if (normalized === 0) return`
activateAtNoCancel(stack, position) ==
  IF Len(stack) = 0 THEN NoTab
  ELSE stack[Rem(Rem(position, Len(stack)) + Len(stack), Len(stack)) + 1]

\* activateAt that clamps the position to the last entry instead of wrapping
\* and counts positions from 1
activateAtFromOne(stack, position) ==
  IF Len(stack) = 0 THEN NoTab
  ELSE LET normalized == Min(Max(position, 1), Len(stack)) - 1
       IN IF normalized = 0 THEN NoTab ELSE stack[normalized + 1]

\* activateAt once ensureSeeded returned: the tab it passes to
\* chrome.tabs.update, NoTab when it returns without a call
activateAt(stack, position) ==
  IF Len(stack) = 0 THEN NoTab
  ELSE LET normalized == Rem(Rem(position, Len(stack)) + Len(stack), Len(stack))
       IN IF normalized = 0 THEN NoTab ELSE stack[normalized + 1]

\* the position the handler passes: Math.max(0, msg.index ?? 1)
positionOf(msg) == Max(0, IF msg.hasIndex THEN msg.index ELSE 1)

\* onRemoved that looks for the closed tab anywhere in the stack
closedActiveTabAnywhere(st, w, t) == Includes(st.stacks[w], t)

\* onRemoved: `stack[0] === tabId`
closedActiveTab(st, w, t) == Len(st.stacks[w]) > 0 /\ st.stacks[w][1] = t

\* onRemoved: `mruStore.getStack(windowId)[0]`, NoTab when it is not a number
fallbackTabId(st, w) == IF Len(st.stacks[w]) > 0 THEN st.stacks[w][1] ELSE NoTab

NoCont == [k |-> "none", w |-> NoWin, t |-> NoTab, to |-> NoTab,
           closing |-> FALSE, head |-> FALSE, active |-> FALSE, replaced |-> FALSE]

\* src: the handler; msg, w: the finalize message and its window; w, t,
\* closing: the removed tab; sync: the listener ran without waiting for the
\* load; tab: the tab passed to chrome.tabs.update, NoTab when none was
NoOut == [src |-> "none", msg |-> NoMsg, w |-> NoWin, t |-> NoTab, closing |-> FALSE,
          sync |-> FALSE, tab |-> NoTab]

FinIdle == [stage |-> "idle", msg |-> NoMsg, w |-> NoWin]

RouterPending == Pending + Cardinality(gets)

\* no continuation of an earlier callback is still queued as a microtask
Quiet ==
  /\ Drained
  /\ conts = <<>>
  /\ ~(loaded /\ fin.stage = "loading")
  /\ ~(fin.stage = "seeding" /\ seedStage = "none")

\* a listener that makes one store call and does nothing after it
Forward(o) ==
  /\ Quiet
  /\ ~loaded => RouterPending < MaxPending
  /\ Call(o)
  /\ after' = IF loaded THEN after ELSE Append(after, NoCont)
  /\ out' = NoOut
  /\ UNCHANGED <<pending, gets, conts, fin>>

\* chrome.tabs.onActivated
OnActivated(w, t) == Forward(OpRec("touch", w, t, 0))

\* chrome.tabs.onCreated
OnCreated(w, t, active) == Forward(OpRec(IF active THEN "touch" ELSE "append", w, t, 0))

\* chrome.tabs.onDetached
OnDetached(w, t) == Forward(OpRec("remove", w, t, 0))

\* onRemoved after `await mruStore.remove(windowId, tabId)`: the store, the
\* tracker and the activation it leaves
afterRemove(st, w, t, closing, head) ==
  LET tracked == t \in pending
      acts == ~tracked /\ ~closing /\ head
      s1 == IF acts THEN getStack(st, w) ELSE st
  IN [st |-> s1,
      tab |-> IF acts THEN fallbackTabId(s1, w) ELSE NoTab]

\* chrome.tabs.onRemoved
OnRemoved(w, t, closing) ==
  /\ Quiet
  /\ LET s0 == getStack(Store, w)
         head == closedActiveTab(s0, w, t)
     IN IF loaded
        THEN LET r == afterRemove(remove(s0, w, t), w, t, closing, head)
             IN /\ Becomes(r.st)
                /\ pending' = pending \ {t}
                /\ out' = [NoOut EXCEPT !.src = "removed", !.w = w, !.t = t,
                             !.closing = closing, !.sync = TRUE, !.tab = r.tab]
                /\ UNCHANGED <<waiters, after>>
        ELSE /\ RouterPending < MaxPending
             /\ Becomes(s0)
             /\ waiters' = Append(waiters, OpRec("remove", w, t, 0))
             /\ after' = Append(after, [NoCont EXCEPT !.k = "removed", !.w = w, !.t = t,
                                          !.closing = closing, !.head = head])
             /\ out' = NoOut
             /\ UNCHANGED pending
  /\ UNCHANGED <<loaded, loadPromise, persistPromise, seedStage, gets, conts, fin>>

\* chrome.tabs.onReplaced up to `await chrome.tabs.get(addedTabId)`
OnReplaced(added, removed) ==
  /\ Quiet
  /\ added # removed
  /\ RouterPending < MaxPending
  /\ [added |-> added, removed |-> removed] \notin gets
  /\ pending' = pending \cup {removed}
  /\ gets' = gets \cup {[added |-> added, removed |-> removed]}
  /\ out' = NoOut
  /\ UNCHANGED <<storeVars, after, conts, fin>>

\* onReplaced after `await mruStore.replace(...)` returned `replaced`
afterReplace(st, c) ==
  IF c.replaced THEN st
  ELSE IF c.active THEN touch(st, c.w, c.to) ELSE append(st, c.w, c.to)

\* chrome.tabs.get resolves with a tab of window w
TabsGetDone(g, w, active) ==
  /\ Quiet
  /\ g \in gets
  /\ gets' = gets \ {g}
  /\ LET c == [NoCont EXCEPT !.k = "replaced", !.w = w, !.t = g.removed,
                 !.to = g.added, !.active = active,
                 !.replaced = replaceResult(Store, w, g.removed)]
     IN IF loaded
        THEN /\ Becomes(afterReplace(replace(Store, w, g.removed, g.added), c))
             /\ pending' = pending \ {g.removed}
             /\ UNCHANGED <<waiters, after>>
        ELSE /\ waiters' = Append(waiters, OpRec("replace", w, g.removed, g.added))
             /\ after' = Append(after, c)
             /\ UNCHANGED <<stacks, known, detached, tasks, persistTimer, pending>>
  /\ out' = NoOut
  /\ UNCHANGED <<loaded, loadPromise, persistPromise, seedStage, conts, fin>>

\* chrome.tabs.get rejects, or the tab has no windowId: the guard is released
TabsGetFailed(g) ==
  /\ Quiet
  /\ g \in gets
  /\ gets' = gets \ {g}
  /\ pending' = pending \ {g.removed}
  /\ out' = NoOut
  /\ UNCHANGED <<storeVars, after, conts, fin>>

\* the first waiting store call resumes; its listener's continuation queues
RouterResume ==
  /\ ResumeWaiter
  /\ after' = Tail(after)
  /\ conts' =
       LET c == Head(after)
       IN IF c.k = "none" THEN conts
          ELSE Append(conts,
                 [c EXCEPT !.replaced = c.k = "replaced" /\ replaceResult(Store, c.w, c.t)])
  /\ out' = NoOut
  /\ UNCHANGED <<pending, gets, fin>>

\* a listener continues after its store call returned
RunCont ==
  /\ loaded
  /\ waiters = <<>>
  /\ conts # <<>>
  /\ conts' = Tail(conts)
  /\ LET c == Head(conts)
     IN IF c.k = "removed"
        THEN LET r == afterRemove(Store, c.w, c.t, c.closing, c.head)
             IN /\ Becomes(r.st)
                /\ out' = [NoOut EXCEPT !.src = "removed", !.w = c.w, !.t = c.t,
                             !.closing = c.closing, !.tab = r.tab]
        ELSE /\ Becomes(afterReplace(Store, c))
             /\ out' = NoOut
  /\ pending' = pending \ {Head(conts).t}
  /\ UNCHANGED <<loaded, loadPromise, persistPromise, seedStage, waiters,
                 gets, after, fin>>

\* the storage read of the load calls back
RouterLoad(doc) == LoadDone(doc) /\ out' = NoOut /\ UNCHANGED <<pending, gets, after, conts, fin>>
RouterLoadFailed == LoadFailed /\ out' = NoOut /\ UNCHANGED <<pending, gets, after, conts, fin>>

\* activateAt from `const stack = mruStore.getStack(windowId)` on
Activate(f) ==
  /\ Becomes(getStack(Store, f.w))
  /\ out' = [NoOut EXCEPT !.src = "finalize", !.msg = f.msg, !.w = f.w,
               !.tab = activateAt(stacks[f.w], positionOf(f.msg))]
  /\ fin' = FinIdle
  /\ UNCHANGED seedStage

\* ensureSeeded after its `await ensureLoaded()`: it returns when the Map has
\* a stack, and awaits seedAll() otherwise
Seeded(f) ==
  IF known # {}
  THEN Activate(f)
  ELSE /\ seedStage' = IF seedStage = "none" THEN "current" ELSE seedStage
       /\ fin' = [f EXCEPT !.stage = "seeding"]
       /\ out' = NoOut
       /\ UNCHANGED <<stacks, known, detached, tasks, persistTimer>>

\* chrome.runtime.onMessage receives a mru-finalize message
FinalizeMsg(msg) ==
  /\ Quiet
  /\ fin.stage = "idle"
  /\ fin' = [stage |-> "getCurrent", msg |-> msg, w |-> NoWin]
  /\ out' = NoOut
  /\ UNCHANGED <<storeVars, pending, gets, after, conts>>

\* chrome.windows.getCurrent resolves without a window id
FinNoWindow ==
  /\ Quiet
  /\ fin.stage = "getCurrent"
  /\ fin' = FinIdle
  /\ out' = [NoOut EXCEPT !.src = "finalize", !.msg = fin.msg]
  /\ UNCHANGED <<storeVars, pending, gets, after, conts>>

\* chrome.windows.getCurrent resolves with window w
FinCurrent(w) ==
  /\ Quiet
  /\ fin.stage = "getCurrent"
  /\ IF fin.msg.tabId # NoTab
     THEN /\ out' = [NoOut EXCEPT !.src = "finalize", !.msg = fin.msg, !.w = w,
                       !.tab = fin.msg.tabId]
          /\ fin' = FinIdle
          /\ UNCHANGED <<stacks, known, detached, tasks, persistTimer, seedStage>>
     ELSE IF ~loaded
     THEN /\ fin' = [fin EXCEPT !.stage = "loading", !.w = w]
          /\ out' = NoOut
          /\ UNCHANGED <<stacks, known, detached, tasks, persistTimer, seedStage>>
     ELSE Seeded([fin EXCEPT !.w = w])
  /\ UNCHANGED <<loaded, loadPromise, persistPromise, waiters,
                 pending, gets, after, conts>>

\* the load finished: ensureSeeded goes on
FinLoaded ==
  /\ loaded
  /\ fin.stage = "loading"
  /\ Seeded(fin)
  /\ UNCHANGED <<loaded, loadPromise, persistPromise, waiters,
                 pending, gets, after, conts>>

\* seedAll's promise settled: ensureSeeded returns and activateAt goes on
FinSeeded ==
  /\ fin.stage = "seeding"
  /\ seedStage = "none"
  /\ Activate(fin)
  /\ UNCHANGED <<loaded, loadPromise, persistPromise, waiters,
                 pending, gets, after, conts>>

\* a step of performSeedAll, between the router's callbacks
Seeding(step) == Quiet /\ step /\ out' = NoOut /\ UNCHANGED <<pending, gets, after, conts, fin>>

RouterInit ==
  /\ pending = {}
  /\ gets = {}
  /\ after = <<>>
  /\ conts = <<>>
  /\ fin = FinIdle
  /\ out = NoOut

(***************************************************************************)
(* faviconStore: the two cache namespaces (byUrl, byHost), their pending   *)
(* maps and the debounced persistence.  Date.now() is the model's clock,   *)
(* which advances in steps of CACHE_TTL_MS between callbacks.              *)
(***************************************************************************)
VARIABLES
  byUrl,              \* Map icon URL -> CacheEntry
  byHost,             \* Map hostname -> CacheEntry
  pendingByUrl,       \* keys of the Map icon URL -> pending promise
  pendingByHost,      \* keys of the Map hostname -> pending promise
  favLoaded,          \* faviconStore.loaded
  favPersistTimer,    \* faviconStore.persistTimer is set
  favPersistPromise,  \* faviconStore.persistPromise is set
  clock,              \* Date.now(), in units of CACHE_TTL_MS
  resolving,          \* resolve calls suspended at `await ensureLoaded()`, in call order
  fetching,           \* bag of network fetches in flight, by namespace and key
  callers,            \* bag of resolve calls awaiting a pending promise
  got                 \* what the resolve call or fetch of the last step returned

favVars == <<byUrl, byHost, pendingByUrl, pendingByHost, favLoaded, favPersistTimer,
             favPersistPromise, clock, resolving, fetching, callers, got>>

\* the `maxEntries` writeCache and pruneMap are called with for each map
\* (MAX_URL_ENTRIES and MAX_HOST_ENTRIES in the program)
VARIABLES maxEntries

capVars == <<maxEntries>>

CACHE_TTL_MS == 604800000
MAX_HOST_ENTRIES == 256
MAX_URL_ENTRIES == 256

DateNow == clock * CACHE_TTL_MS

Urls == {"https://a.example/favicon.ico", "https://b.example/icon.png"}
Hosts == {"a.example"}
\* tab.favIconUrl when it is undefined / a data: URI; no hostname
NoUrl == ""
DataUrl == "data:image/png;base64,AAAA"
NoHost == ""
\* a dataUri: null, or what a fetch produced; Undefined is readCache's miss
Null == "null"
Fetched == "data:image/x-icon;base64,BBBB"
Undefined == "undefined"
NotAString == "[object Object]"

Tabs == [favIconUrl : {NoUrl, DataUrl} \cup Urls, hostname : {NoHost} \cup Hosts]

\* the store's synchronous state, threaded through its functions
Fav == [by |-> [url |-> byUrl, host |-> byHost],
        pend |-> [url |-> pendingByUrl, host |-> pendingByHost],
        fetching |-> fetching, callers |-> callers, timer |-> favPersistTimer]

\* map.delete(key) / map.set(key, entry)
MapDelete(map, key) == [k \in DOMAIN map \ {key} |-> map[k]]
MapSet(map, key, entry) == [k \in DOMAIN map \cup {key} |-> IF k = key THEN entry ELSE map[k]]

\* the entries of map that are not expired at Date.now()
Unexpired(map) == [k \in {x \in DOMAIN map : map[x].expiresAt > DateNow} |-> map[k]]

\* pruneMap's loop deleting the entries that expire last
RECURSIVE evictNewest(_, _)
evictNewest(map, cap) ==
  IF Cardinality(DOMAIN map) <= cap THEN map
  ELSE LET last == CHOOSE k \in DOMAIN map :
                     \A j \in DOMAIN map : map[k].expiresAt >= map[j].expiresAt
       IN evictNewest(MapDelete(map, last), cap)

\* pruneMap's while loop: delete the entries that expire first
RECURSIVE evict(_, _)
evict(map, cap) ==
  IF Cardinality(DOMAIN map) <= cap THEN map
  ELSE LET first == CHOOSE k \in DOMAIN map :
                      \A j \in DOMAIN map : map[k].expiresAt <= map[j].expiresAt
       IN evict(MapDelete(map, first), cap)

pruneMap(map, cap) == evict(Unexpired(map), cap)

\* serializeEntries deletes the expired entries from the map it serializes
serializeEntries(map) == Unexpired(map)

\* readCache that treats a cached null as a miss
readCacheRetriesNull(map, key) ==
  IF key \notin DOMAIN map THEN [map |-> map, value |-> Undefined, expired |-> FALSE]
  ELSE IF map[key].expiresAt <= DateNow
       THEN [map |-> MapDelete(map, key), value |-> Undefined, expired |-> TRUE]
       ELSE [map |-> map,
             value |-> IF map[key].dataUri = Null THEN Undefined ELSE map[key].dataUri,
             expired |-> FALSE]

\* readCache that serves an entry at the very millisecond of its expiry
readCacheLate(map, key) ==
  IF key \notin DOMAIN map THEN [map |-> map, value |-> Undefined, expired |-> FALSE]
  ELSE IF map[key].expiresAt < DateNow
       THEN [map |-> MapDelete(map, key), value |-> Undefined, expired |-> TRUE]
       ELSE [map |-> map, value |-> map[key].dataUri, expired |-> FALSE]

\* readCache: the map after the read, the value returned, and whether an
\* expired entry was deleted (and schedulePersist called)
readCache(map, key) ==
  IF key \notin DOMAIN map THEN [map |-> map, value |-> Undefined, expired |-> FALSE]
  ELSE IF map[key].expiresAt <= DateNow
       THEN [map |-> MapDelete(map, key), value |-> Undefined, expired |-> TRUE]
       ELSE [map |-> map, value |-> map[key].dataUri, expired |-> FALSE]

writeCache(map, key, dataUri, cap) ==
  pruneMap(MapSet(map, key, [dataUri |-> dataUri, expiresAt |-> DateNow + CACHE_TTL_MS]),
           cap)

maxEntriesOf(ns) == maxEntries[ns]

\* fetchAndCache without `if (pending) return pending`
fetchAndCacheAlways(fs, ns, key, expired) ==
  LET r == readCache(fs.by[ns], key)
      s1 == [fs EXCEPT !.by[ns] = r.map, !.timer = @ \/ r.expired]
      me == [ns |-> ns, key |-> key]
  IN IF r.value # Undefined
     THEN [fs |-> s1, kind |-> "hit", value |-> r.value, expired |-> expired \/ r.expired]
     ELSE [fs |-> [s1 EXCEPT !.pend[ns] = @ \cup {key},
                             !.fetching = @ (+) BagOf(me, 1),
                             !.callers = @ (+) BagOf(me, 1)],
           kind |-> "fetch", value |-> Undefined, expired |-> expired \/ r.expired]

\* fetchAndCacheUrl (ns = "url") and resolveHostFavicon (ns = "host") after
\* their `await ensureLoaded()`, up to the await of the fetch
fetchAndCache(fs, ns, key, expired) ==
  LET r == readCache(fs.by[ns], key)
      s1 == [fs EXCEPT !.by[ns] = r.map, !.timer = @ \/ r.expired]
      me == [ns |-> ns, key |-> key]
  IN IF r.value # Undefined
     THEN [fs |-> s1, kind |-> "hit", value |-> r.value, expired |-> expired \/ r.expired]
     ELSE IF key \in s1.pend[ns]
     THEN [fs |-> [s1 EXCEPT !.callers = @ (+) BagOf(me, 1)],
           kind |-> "join", value |-> Undefined, expired |-> expired \/ r.expired]
     ELSE [fs |-> [s1 EXCEPT !.pend[ns] = @ \cup {key},
                             !.fetching = @ (+) BagOf(me, 1),
                             !.callers = @ (+) BagOf(me, 1)],
           kind |-> "fetch", value |-> Undefined, expired |-> expired \/ r.expired]

fetchAndCacheUrl(fs, url, expired) == fetchAndCache(fs, "url", url, expired)
resolveHostFavicon(fs, hostname, expired) == fetchAndCache(fs, "host", hostname, expired)

\* the namespace and key resolve looks a tab up under
nsOf(tab) == IF tab.favIconUrl # NoUrl THEN "url" ELSE "host"
keyOf(tab) == IF tab.favIconUrl # NoUrl THEN tab.favIconUrl ELSE tab.hostname

\* resolve after its `await ensureLoaded()`
resolve(fs, tab) ==
  IF tab.favIconUrl = DataUrl
  THEN [fs |-> fs, kind |-> "data", value |-> tab.favIconUrl, expired |-> FALSE]
  ELSE IF tab.favIconUrl = NoUrl /\ tab.hostname = NoHost
  THEN [fs |-> fs, kind |-> "none", value |-> Null, expired |-> FALSE]
  ELSE LET ns == nsOf(tab)
           key == keyOf(tab)
           r == readCache(fs.by[ns], key)
           s1 == [fs EXCEPT !.by[ns] = r.map, !.timer = @ \/ r.expired]
       IN IF r.value # Undefined
          THEN [fs |-> s1, kind |-> "hit", value |-> r.value, expired |-> FALSE]
          ELSE IF ns = "url" THEN fetchAndCacheUrl(s1, key, r.expired)
               ELSE resolveHostFavicon(s1, key, r.expired)

\* sanitizeEntries: the stored entries that sanitizeEntry accepts, set in target
sanitizeEntries(input, target) ==
  LET ok == {k \in DOMAIN input :
               /\ input[k].expiresAt > DateNow
               /\ input[k].dataUri # NotAString}
  IN [k \in DOMAIN target \cup ok |-> IF k \in ok THEN input[k] ELSE target[k]]

NoGot == [kind |-> "none", ns |-> "", key |-> "", value |-> Undefined,
          expired |-> FALSE, n |-> 0, removed |-> 0]

FavBecomes(fs) ==
  /\ byUrl' = fs.by.url
  /\ byHost' = fs.by.host
  /\ pendingByUrl' = fs.pend.url
  /\ pendingByHost' = fs.pend.host
  /\ fetching' = fs.fetching
  /\ callers' = fs.callers
  /\ favPersistTimer' = fs.timer

\* no resolve call is waiting to resume in a microtask
FavQuiet == favLoaded => resolving = <<>>

\* a resolve call runs from its `await ensureLoaded()` to its return or to
\* the await of a fetch
Resolved(tab) ==
  LET r == resolve(Fav, tab)
  IN /\ FavBecomes(r.fs)
     /\ got' = [kind |-> r.kind, ns |-> nsOf(tab), key |-> keyOf(tab),
                value |-> r.value, expired |-> r.expired, n |-> 1, removed |-> 0]

\* faviconStore.resolve(tab) is called
Resolve(tab) ==
  /\ FavQuiet
  /\ Len(resolving) + BagCardinality(callers) < MaxResolving
  /\ IF favLoaded
     THEN Resolved(tab) /\ UNCHANGED resolving
     ELSE /\ resolving' = Append(resolving, tab)
          /\ got' = NoGot
          /\ UNCHANGED <<byUrl, byHost, pendingByUrl, pendingByHost, fetching, callers,
                         favPersistTimer>>
  /\ UNCHANGED <<favLoaded, favPersistPromise, clock>>

\* the first waiting resolve call resumes after the load
ResolveResume ==
  /\ favLoaded
  /\ resolving # <<>>
  /\ Resolved(Head(resolving))
  /\ resolving' = Tail(resolving)
  /\ UNCHANGED <<favLoaded, favPersistPromise, clock>>

\* fetchAsDataURI settles for the fetch f: the result is cached, the
\* pending entry deleted and every caller of the promise gets the result
FetchSettled(f, ok) ==
  /\ FavQuiet
  /\ BagIn(f, fetching)
  /\ LET dataUri == IF ok THEN Fetched ELSE Null
         n == CopiesIn(f, callers)
     IN /\ FavBecomes([Fav EXCEPT
             !.by[f.ns] = writeCache(@, f.key, dataUri, maxEntriesOf(f.ns)),
             !.pend[f.ns] = @ \ {f.key},
             !.fetching = @ (-) BagOf(f, 1),
             !.callers = @ (-) BagOf(f, n),
             !.timer = TRUE])
        /\ got' = [kind |-> "settled", ns |-> f.ns, key |-> f.key, value |-> dataUri,
                   expired |-> FALSE, n |-> n,
                   removed |-> Cardinality((DOMAIN Fav.by[f.ns] \cup {f.key})
                                             \ DOMAIN writeCache(Fav.by[f.ns], f.key, dataUri,
                                                                 maxEntriesOf(f.ns)))]
  /\ UNCHANGED <<favLoaded, favPersistPromise, clock, resolving>>

\* loadCache: storageArea.get calls back with the stored document
FavLoadDone(doc) ==
  /\ ~favLoaded
  /\ byUrl' = pruneMap(sanitizeEntries(doc.urls, byUrl), maxEntriesOf("url"))
  /\ byHost' = pruneMap(sanitizeEntries(doc.hosts, byHost), maxEntriesOf("host"))
  /\ favLoaded' = TRUE
  /\ got' = NoGot
  /\ UNCHANGED <<pendingByUrl, pendingByHost, favPersistTimer, favPersistPromise, clock,
                 resolving, fetching, callers>>

\* loadCache: storageArea.get calls back with chrome.runtime.lastError set
FavLoadFailed ==
  /\ ~favLoaded
  /\ favLoaded' = TRUE
  /\ got' = NoGot
  /\ UNCHANGED <<byUrl, byHost, pendingByUrl, pendingByHost, favPersistTimer,
                 favPersistPromise, clock, resolving, fetching, callers>>

\* the persist timer fires: persistCache serializes both maps and writes
FavPersistFire ==
  /\ FavQuiet
  /\ favPersistTimer
  /\ favPersistTimer' = FALSE
  /\ favPersistPromise' = TRUE
  /\ byHost' = serializeEntries(byHost)
  /\ byUrl' = serializeEntries(byUrl)
  /\ got' = NoGot
  /\ UNCHANGED <<pendingByUrl, pendingByHost, favLoaded, clock, resolving, fetching,
                 callers>>

\* the storage write of persistCache calls back
FavPersistDone ==
  /\ FavQuiet
  /\ favPersistPromise
  /\ favPersistPromise' = FALSE
  /\ got' = NoGot
  /\ UNCHANGED <<byUrl, byHost, pendingByUrl, pendingByHost, favLoaded, favPersistTimer,
                 clock, resolving, fetching, callers>>

\* time passes
Tick ==
  /\ FavQuiet
  /\ clock < MaxClock
  /\ clock' = clock + 1
  /\ got' = NoGot
  /\ UNCHANGED <<byUrl, byHost, pendingByUrl, pendingByHost, favLoaded, favPersistTimer,
                 favPersistPromise, resolving, fetching, callers>>

\* stored cache documents: none; entries that are expired when loaded, that
\* expire a millisecond later or with the first step of the clock, and one
\* whose dataUri is no string
NoEntries == [k \in {} |-> Null]
StoredCaches ==
  { [urls |-> NoEntries, hosts |-> NoEntries],
    [urls |-> [u \in Urls |->
                 IF u = "https://a.example/favicon.ico"
                 THEN [dataUri |-> Fetched, expiresAt |-> CACHE_TTL_MS]
                 ELSE [dataUri |-> NotAString, expiresAt |-> CACHE_TTL_MS + 1]],
     hosts |-> [h \in Hosts |-> [dataUri |-> Null, expiresAt |-> 1]]],
    [urls |-> [u \in Urls |-> [dataUri |-> Fetched, expiresAt |-> 0]],
     hosts |-> [h \in Hosts |-> [dataUri |-> Fetched, expiresAt |-> CACHE_TTL_MS + 1]]] }

FavInit ==
  /\ byUrl = NoEntries
  /\ byHost = NoEntries
  /\ pendingByUrl = {}
  /\ pendingByHost = {}
  /\ favLoaded = FALSE
  /\ favPersistTimer = FALSE
  /\ favPersistPromise = FALSE
  /\ clock = 0
  /\ resolving = <<>>
  /\ fetching = EmptyBag
  /\ callers = EmptyBag
  /\ got = NoGot

\* stored cache documents whose entries expire at different times
OneEntry(key, dataUri, expiresAt) ==
  [k \in {key} |-> [dataUri |-> dataUri, expiresAt |-> expiresAt]]

CrowdedCaches ==
  { [urls |-> [u \in Urls |->
                 IF u = "https://a.example/favicon.ico"
                 THEN [dataUri |-> Fetched, expiresAt |-> 1]
                 ELSE [dataUri |-> Fetched, expiresAt |-> 2]],
     hosts |-> OneEntry("a.example", Null, 1)],
    [urls |-> OneEntry("https://b.example/icon.png", Fetched, 2),
     hosts |-> NoEntries],
    [urls |-> OneEntry("https://b.example/icon.png", Null, 1),
     hosts |-> OneEntry("a.example", Fetched, CACHE_TTL_MS)] }

CapInit == maxEntries = [url |-> MAX_URL_ENTRIES, host |-> MAX_HOST_ENTRIES]

(***************************************************************************)
(* The HUD scripts: the key handlers, the snapshot request and the reveal  *)
(* timer.  The repository holds three of them: the one at the end of       *)
(* background.ts (wrapIndex, pendingMoves, sessionActive), content.ts      *)
(* (clampIndex, one request per press while the overlay is hidden) and     *)
(* content.js (as content.ts, without the cycled flag, with a blur         *)
(* listener).  The snapshot response is an input: a list of 0..MaxItems    *)
(* items.                                                                  *)
(***************************************************************************)
VARIABLES
  script,         \* which of the two HUD scripts runs in the page
  items,          \* the snapshot the HUD holds
  index,          \* the selection
  visible,        \* the overlay is shown
  hudTimer,       \* the reveal timer is set
  cycled,
  optionKeys,     \* the Set of held modifier codes (`down` in content.ts)
  sessionActive,
  initializing,
  pendingMoves,
  requests,       \* bag of requestItems calls in flight, by the delta of their key press
  held,           \* the modifier keys that are physically down
  hudOut,         \* what the handler of the last step did
  tap             \* history of the current hold of the modifier

hudVars == <<script, items, index, visible, hudTimer, cycled, optionKeys, sessionActive,
             initializing, pendingMoves, requests, held, hudOut, tap>>

BackgroundTs == "background.ts"
ContentTs == "content.ts"
ContentJs == "content.js"
Scripts == {BackgroundTs, ContentTs}

ModifierKeyCodes == {"AltLeft", "AltRight"}

\* a snapshot of n items
Snapshot(n) == [i \in 1..n |-> i]

\* optionIsHeld(event) of background.ts; isOptionHeld() of content.ts
optionIsHeld(altKey) ==
  IF script = BackgroundTs THEN altKey \/ optionKeys # {} ELSE optionKeys # {}

\* wrapIndex with the remainder left as `%` gives it (negative for negative n)
wrapIndexNoLift(n) ==
  IF Len(items) = 0 THEN 0
  ELSE Rem(n, Len(items))

\* background.ts: wrapIndex
wrapIndex(n) ==
  IF Len(items) = 0 THEN 0
  ELSE Rem(Rem(n, Len(items)) + Len(items), Len(items))

\* content.ts: clampIndex
clampIndex(n) ==
  IF Len(items) = 0 THEN 0
  ELSE Max(0, Min(Max(0, Len(items) - 1), n))

\* wrapIndex / clampIndex over a given list of items
wrapIn(list, n) ==
  IF Len(list) = 0 THEN 0 ELSE Rem(Rem(n, Len(list)) + Len(list), Len(list))
clampIn(list, n) ==
  IF Len(list) = 0 THEN 0 ELSE Max(0, Min(Max(0, Len(list) - 1), n))

\* moveSelection: the index it leaves
moveSelection(delta) ==
  IF script = BackgroundTs THEN wrapIndex(index + delta) ELSE clampIndex(index + delta)

\* a replay that applies one step only, whatever the count of pending moves
flushOneMove(list, i, p) ==
  IF p = 0 THEN i ELSE wrapIn(list, i + (IF p > 0 THEN 1 ELSE -1))

\* flushPendingMoves over the items just fetched, from index i with p moves left
RECURSIVE flushPendingMoves(_, _, _)
flushPendingMoves(list, i, p) ==
  IF p = 0 THEN i
  ELSE LET step == IF p > 0 THEN 1 ELSE -1
       IN flushPendingMoves(list, wrapIn(list, i + step), p - step)

NoSend == -1
NoHud == [ev |-> "none", delta |-> 0, sent |-> NoSend, n |-> 0]

\* the hold of the modifier that begins now
NewTap ==
  [clean |-> requests = EmptyBag /\ ~sessionActive /\ ~cycled /\ ~hudTimer /\ ~visible
               /\ ~initializing /\ pendingMoves = 0,
   presses |-> 0, delta |-> 0, released |-> FALSE, items |-> -1, sent |-> NoSend,
   shown |-> FALSE, fired |-> FALSE]

\* a release that forgets every tracked code
releaseEvery(keys, code, altKey) == {}

\* background.ts: releaseOption over the tracked codes (content.ts deletes the
\* code of the event from `down`)
releaseOption(keys, code, altKey) ==
  IF code \in ModifierKeyCodes THEN keys \ {code}
  ELSE IF ~altKey THEN {} ELSE keys

\* keydown of a modifier key
AltDown(code) ==
  /\ code \notin held
  /\ held' = held \cup {code}
  /\ optionKeys' = optionKeys \cup {code}
  /\ tap' = IF held = {} THEN NewTap ELSE tap
  /\ hudOut' = NoHud
  /\ UNCHANGED <<script, items, index, visible, hudTimer, cycled, sessionActive,
                 initializing, pendingMoves, requests>>

\* the block of the keyup handlers that runs when the modifier is no longer held
Released ==
  /\ hudTimer' = FALSE
  /\ visible' = IF cycled \/ script = ContentJs THEN FALSE ELSE visible
  /\ hudOut' = [NoHud EXCEPT !.ev = "release",
                              !.sent = IF cycled \/ script = ContentJs THEN index ELSE NoSend]
  /\ cycled' = FALSE
  /\ IF script = BackgroundTs
     THEN sessionActive' = FALSE /\ pendingMoves' = 0 /\ initializing' = FALSE
     ELSE UNCHANGED <<sessionActive, pendingMoves, initializing>>

\* keyup of a modifier key
AltUp(code) ==
  /\ code \in held
  /\ held' = held \ {code}
  /\ optionKeys' = releaseOption(optionKeys, code, held' # {})
  /\ IF (script = BackgroundTs /\ held' # {}) \/ optionKeys' # {}
     THEN /\ hudOut' = [NoHud EXCEPT !.ev = "keyup"]
          /\ UNCHANGED <<hudTimer, visible, cycled, sessionActive, pendingMoves,
                         initializing>>
     ELSE Released
  /\ tap' = IF held' = {}
            THEN [tap EXCEPT !.released = TRUE, !.sent = hudOut'.sent]
            ELSE tap
  /\ UNCHANGED <<script, items, index, requests>>

\* keydown of Tab while the modifier counts as held
TabDown(shift, repeat) ==
  /\ optionIsHeld(held # {})
  /\ LET delta == IF shift THEN -1 ELSE 1
         counts == ~repeat
     IN /\ counts => tap.presses < MaxPresses
        /\ tap' = IF counts
                  THEN [tap EXCEPT !.presses = @ + 1,
                                   !.delta = IF tap.presses = 0 THEN delta ELSE @]
                  ELSE tap
        /\ IF repeat
           THEN /\ hudOut' = NoHud
                /\ UNCHANGED <<index, cycled, initializing, pendingMoves, requests>>
           ELSE /\ hudOut' = [NoHud EXCEPT !.ev = "press", !.delta = delta]
                /\ IF script = BackgroundTs
                   THEN IF ~sessionActive
                        THEN /\ pendingMoves' = pendingMoves + delta
                             /\ initializing' = TRUE
                             /\ IF initializing
                                THEN UNCHANGED requests
                                ELSE /\ BagCardinality(requests) < MaxRequests
                                     /\ requests' = requests (+) BagOf(delta, 1)
                             /\ UNCHANGED <<index, cycled>>
                        ELSE /\ cycled' = TRUE
                             /\ index' = moveSelection(delta)
                             /\ UNCHANGED <<initializing, pendingMoves, requests>>
                   ELSE IF ~visible
                        THEN /\ BagCardinality(requests) < MaxRequests
                             /\ requests' = requests (+) BagOf(delta, 1)
                             /\ UNCHANGED <<index, cycled, initializing, pendingMoves>>
                        ELSE /\ cycled' = (script # ContentJs)
                             /\ index' = moveSelection(delta)
                             /\ UNCHANGED <<initializing, pendingMoves, requests>>
  /\ UNCHANGED <<script, items, visible, hudTimer, optionKeys, sessionActive, held>>

\* keydown of another key while the modifier counts as held (content.js has
\* no such branch)
OtherKeyDown ==
  /\ script # ContentJs
  /\ optionIsHeld(held # {})
  /\ hudTimer
  /\ hudTimer' = FALSE
  /\ hudOut' = NoHud
  /\ UNCHANGED <<script, items, index, visible, cycled, optionKeys, sessionActive,
                 initializing, pendingMoves, requests, held, tap>>

\* keyup of a key that is no modifier (Tab included): background.ts runs its
\* release block when the modifier is not held
OtherKeyUp ==
  /\ script = BackgroundTs
  /\ ~optionIsHeld(held # {})
  /\ Released
  /\ UNCHANGED <<script, items, index, optionKeys, requests, held, tap>>

\* the callback of requestItems runs with n items
Response(delta, n) ==
  /\ BagIn(delta, requests)
  /\ requests' = requests (-) BagOf(delta, 1)
  /\ tap' = IF tap.presses >= 1 /\ tap.items = -1 THEN [tap EXCEPT !.items = n] ELSE tap
  /\ hudOut' = [NoHud EXCEPT !.ev = "snapshot", !.n = n,
                              !.delta = IF script = BackgroundTs THEN pendingMoves ELSE delta]
  /\ IF script = BackgroundTs
     THEN /\ initializing' = FALSE
          /\ IF n < 1
             THEN /\ pendingMoves' = 0
                  /\ sessionActive' = FALSE
                  /\ UNCHANGED <<items, index, hudTimer, cycled>>
             ELSE /\ items' = Snapshot(n)
                  /\ sessionActive' = TRUE
                  /\ hudTimer' = TRUE
                  /\ cycled' = TRUE
                  /\ index' = flushPendingMoves(Snapshot(n), 0, pendingMoves)
                  /\ pendingMoves' = 0
     ELSE /\ items' = Snapshot(n)
          /\ IF n < 1
             THEN UNCHANGED <<index, hudTimer, cycled>>
             ELSE /\ hudTimer' = TRUE
                  /\ cycled' = (script # ContentJs)
                  /\ index' = clampIn(Snapshot(n), 0 + delta)
          /\ UNCHANGED <<initializing, pendingMoves, sessionActive>>
  /\ UNCHANGED <<script, visible, optionKeys, held>>

\* the reveal timer fires
TimerFire ==
  /\ hudTimer
  /\ hudTimer' = FALSE
  /\ visible' = (visible \/ (/\ optionKeys # {}
                             /\ script = BackgroundTs => sessionActive))
  /\ tap' = [tap EXCEPT !.shown = @ \/ (visible' /\ ~visible),
                        !.fired = @ \/ ~tap.released]
  /\ hudOut' = NoHud
  /\ UNCHANGED <<script, items, index, cycled, optionKeys, sessionActive, initializing,
                 pendingMoves, requests, held>>

\* a modifier key goes down while the page does not get the key events (the
\* focus is elsewhere): no handler runs
AltDownElsewhere(code) ==
  /\ code \notin held
  /\ held' = held \cup {code}
  /\ tap' = IF held = {} THEN NewTap ELSE tap
  /\ hudOut' = NoHud
  /\ UNCHANGED <<script, items, index, visible, hudTimer, cycled, optionKeys,
                 sessionActive, initializing, pendingMoves, requests>>

\* the page loses the focus: the blur listener of content.js; background.ts
\* and content.ts register none
Blur ==
  /\ IF script = ContentJs
     THEN /\ optionKeys' = {}
          /\ hudTimer' = FALSE
          /\ visible' = FALSE
     ELSE UNCHANGED <<optionKeys, hudTimer, visible>>
  /\ hudOut' = [NoHud EXCEPT !.ev = "blur"]
  /\ UNCHANGED <<script, items, index, cycled, sessionActive, initializing, pendingMoves,
                 requests, held, tap>>

HudInitOf(s) ==
  /\ script = s
  /\ items = <<>>
  /\ index = 1
  /\ visible = FALSE
  /\ hudTimer = FALSE
  /\ cycled = FALSE
  /\ optionKeys = {}
  /\ sessionActive = FALSE
  /\ initializing = FALSE
  /\ pendingMoves = 0
  /\ requests = EmptyBag
  /\ held = {}
  /\ hudOut = NoHud
  /\ tap = [clean |-> FALSE, presses |-> 0, delta |-> 0, released |-> FALSE, items |-> -1,
            sent |-> NoSend, shown |-> FALSE, fired |-> FALSE]

HudInit == \E s \in Scripts : HudInitOf(s)

(***************************************************************************)
(* History of the HUD session: whether the requests that are in flight     *)
(* belong to a session that was not reset since, whether a chord press was *)
(* handled since the last run of the release block, and whether the focus  *)
(* was lost during a session with no chord press since.                    *)
(***************************************************************************)
VARIABLES
  live,           \* no release block ran since the last snapshot request was sent
  pressed,        \* a non-repeat chord press was handled since the last release block
  interrupted     \* the focus was lost in a session, and no chord was pressed since

sessVars == <<live, pressed, interrupted>>

\* a session is open or being opened
InSession ==
  IF script = BackgroundTs THEN sessionActive \/ initializing
  ELSE visible \/ hudTimer

\* what a step of the key handlers leaves in the history
Tracked ==
  /\ live' = IF BagCardinality(requests') > BagCardinality(requests) THEN TRUE
             ELSE IF hudOut'.ev = "release" THEN FALSE
             ELSE live
  /\ pressed' = IF hudOut'.ev = "release" THEN FALSE
                ELSE IF hudOut'.ev = "press" THEN TRUE
                ELSE pressed
  /\ interrupted' = IF hudOut'.ev = "blur" THEN interrupted \/ InSession
                    ELSE IF hudOut'.ev = "press" THEN FALSE
                    ELSE interrupted

SessInit == live = FALSE /\ pressed = FALSE /\ interrupted = FALSE

(***************************************************************************)
(* A caller of getStack that keeps what it was given.                      *)
(*                                                                         *)
(* getStack returns `stacks.get(windowId) ?? []` after ensure(windowId):   *)
(* the array the Map holds.  `view` is that array as its holder has it:    *)
(* while the Map still holds the array its contents are stacks[view.w];    *)
(* once the Map has let go of it (stacks.delete, or stacks.set with        *)
(* another array) the holder is the only one left to change it.            *)
(***************************************************************************)
VARIABLES view

aliasVars == <<view>>

NoView == [w |-> NoWin, inMap |-> FALSE, arr |-> <<>>]

\* the contents of the array the caller was given
Returned == IF view.inMap THEN stacks[view.w] ELSE view.arr

\* the step makes the Map let go of window w's array: remove's
\* stacks.delete(windowId), or loadStacks' stacks.set(windowId, sanitized)
Dropped(w) == w \notin known' \/ (~loaded /\ loaded' /\ stacks'[w] # stacks[w])

\* the holder's array over a step of the store; the Map lets go of an array
\* only when it is empty (after remove's last splice, or under loadStacks'
\* `existing.length > 0` test)
Kept ==
  view' = IF view.inMap /\ Dropped(view.w)
          THEN [w |-> view.w, inMap |-> FALSE, arr |-> <<>>]
          ELSE view

\* const stack = mruStore.getStack(w), kept by the caller
Keep(w) ==
  /\ GetStack(w)
  /\ view' = [w |-> w, inMap |-> TRUE, arr |-> <<>>]

\* the caller changes the array it was given: stack.pop()
Pop ==
  /\ Drained
  /\ view.w # NoWin
  /\ Len(Returned) > 0
  /\ IF view.inMap
     THEN /\ stacks' = [stacks EXCEPT ![view.w] = SubSeq(@, 1, Len(@) - 1)]
          /\ UNCHANGED view
     ELSE /\ view' = [view EXCEPT !.arr = SubSeq(@, 1, Len(@) - 1)]
          /\ UNCHANGED stacks
  /\ UNCHANGED <<known, detached, loaded, loadPromise, persistTimer, persistPromise,
                 seedStage, waiters, tasks>>

AliasInit == view = NoView

(***************************************************************************)
(* The host's windows while seedAll runs.                                   *)
(*                                                                         *)
(* performSeedAll asks the host for the current window with its tabs, and  *)
(* for all windows when that fails.  `browser` is what the host has: the   *)
(* tabs of each window (none for a window that is not open), every tab in  *)
(* one window.                                                             *)
(***************************************************************************)
VARIABLES
  browser,    \* the live tabs of each window, as a populated window lists them
  seeded,     \* history: a run of performSeedAll has completed
  activeTab   \* the host's active tab of each window (tab.active), NoTab when unknown

seedVars == <<browser, seeded, activeTab>>

NoActive == [w \in WindowIds |-> NoTab]

NoBrowser == [w \in WindowIds |-> <<>>]

OpenWindows == {w \in WindowIds : browser[w] # <<>>}

\* every way the tabs can be spread over the windows
Browsers ==
  {[w \in WindowIds |-> Ascending({t \in TabIds : place[t] = w})] :
     place \in [TabIds -> WindowIds \cup {NoWin}]}

\* chrome.windows.getCurrent({ populate: true }) resolves with window w
SeedCurrent(w) ==
  /\ w \in OpenWindows
  /\ SeedCurrentDone(w, browser[w])
  /\ seeded' = TRUE
  /\ UNCHANGED <<browser, activeTab>>

\* chrome.windows.getAll({ populate: true }) resolves with w as its first window
SeedFirst(w) ==
  /\ w \in OpenWindows
  /\ SeedFirstDone(w, browser[w])
  /\ seeded' = TRUE
  /\ UNCHANGED <<browser, activeTab>>

\* chrome.windows.getAll resolves with no window
SeedNone ==
  /\ OpenWindows = {}
  /\ SeedFirstNone
  /\ seeded' = TRUE
  /\ UNCHANGED <<browser, activeTab>>

\* a run of performSeedAll completes in this step
SeedCompletes == seedStage # "none" /\ seedStage' = "none"

\* the host activates tab t of window w: chrome.tabs.onActivated
HostActivated(w, t) ==
  /\ Includes(browser[w], t)
  /\ activeTab' = [activeTab EXCEPT ![w] = t]
  /\ Touch(w, t)
  /\ UNCHANGED <<browser, seeded>>

\* chrome.tabs.onUpdated for tab t of window w with a changed url or
\* status "complete"
HostUpdated(w, t) ==
  /\ Includes(browser[w], t)
  /\ IF activeTab[w] = t THEN Touch(w, t) ELSE AppendTab(w, t)
  /\ UNCHANGED seedVars

\* the chrome.tabs.query({ windowId }) of a backfill resolves
HostQueried(task) ==
  /\ BackfillDone(task, browser[task.w])
  /\ UNCHANGED seedVars

\* no operation is suspended at an await
Settled ==
  /\ loaded /\ waiters = <<>> /\ tasks = EmptyBag /\ seedStage = "none"

SeedInit == browser = NoBrowser /\ seeded = FALSE /\ activeTab = NoActive

(***************************************************************************)
(* Persistence of the MRU store.                                           *)
(*                                                                         *)
(* A mutation arms the debounce timer unless one is armed; the timer's     *)
(* callback and flushPersist start a storage write of the serialized       *)
(* stacks.  The storage area applies the writes in the order they were     *)
(* issued and calls each write's callback, with or without lastError.      *)
(***************************************************************************)
VARIABLES
  writes,    \* storage writes in flight, oldest first: [id, payload]
  durable,   \* the document under MRU_STORAGE_KEY (window -> list; no key: empty)
  flushes,   \* flushPersist calls waiting: [awaits: write id, doc: stacks at the call]
  timers     \* timeouts set by schedulePersist and neither fired nor cleared

persistVars == <<writes, durable, flushes, timers>>

\* serializeStacks without the test for empty stacks
serializeEvery(st) ==
  [w \in st.known |-> st.stacks[w]]

\* serializeStacks: the non-empty stacks of the Map
serializeStacks(st) ==
  [w \in {x \in st.known : Len(st.stacks[x]) # 0} |-> st.stacks[w]]

\* the stored document as loadStacks reads it: no list for a missing key
StoredAs(doc) ==
  [w \in WindowIds |-> IF w \in DOMAIN doc THEN doc[w] ELSE <<>>]

\* an id for the promise of a new write
NewWrite(ws) ==
  CHOOSE i \in 1..(Len(ws) + 1) : \A k \in DOMAIN ws : ws[k].id # i

\* persistStacks(): the payload is taken at the call, the write is issued
persistStacks(ws, st) ==
  Append(ws, [id |-> NewWrite(ws), payload |-> serializeStacks(st)])

\* the host's count of pending timeouts after a step that may have called
\* schedulePersist
Scheduled ==
  timers' = timers + (IF persistTimer' /\ ~persistTimer THEN 1 ELSE 0)

\* a store operation is called (or, after the load, a waiting one resumes)
Mutate(o) ==
  /\ Call(o)
  /\ Scheduled
  /\ UNCHANGED <<writes, durable, flushes>>

MutateResumed ==
  /\ ResumeWaiter
  /\ Scheduled
  /\ UNCHANGED <<writes, durable, flushes>>

\* the storage read of loadStacks calls back with the durable document
Loaded ==
  /\ LoadDone(StoredAs(durable))
  /\ Scheduled
  /\ UNCHANGED <<writes, durable, flushes>>

\* the debounce timeout fires
TimerFired ==
  /\ timers > 0 /\ persistTimer
  /\ Len(writes) < MaxWrites
  /\ persistTimer' = FALSE
  /\ timers' = timers - 1
  /\ writes' = persistStacks(writes, Store)
  /\ persistPromise' = NewWrite(writes)
  /\ UNCHANGED <<stacks, known, detached, loaded, loadPromise, seedStage, waiters,
                 tasks, durable, flushes>>

\* the callback of the oldest write runs: the promise resolves, its finally
\* clears persistPromise, and the flushPersist calls awaiting it return
WriteSettled(ok) ==
  /\ writes # <<>>
  /\ durable' = IF ok THEN Head(writes).payload ELSE durable
  /\ writes' = Tail(writes)
  /\ persistPromise' = NoWrite
  /\ flushes' = {f \in flushes : f.awaits # Head(writes).id}
  /\ UNCHANGED <<stacks, known, detached, loaded, loadPromise, persistTimer,
                 seedStage, waiters, tasks, timers>>

WriteDone == WriteSettled(TRUE)
WriteFailed == WriteSettled(FALSE)

\* flushPersist() is called
FlushPersist ==
  /\ Cardinality(flushes) < MaxFlushes
  /\ persistTimer' = FALSE
  /\ timers' = IF persistTimer THEN timers - 1 ELSE timers
  /\ IF persistPromise # NoWrite
     THEN /\ flushes' = flushes \cup {[awaits |-> persistPromise,
                                       doc |-> serializeStacks(Store)]}
          /\ UNCHANGED <<writes, persistPromise>>
     ELSE /\ Len(writes) < MaxWrites
          /\ writes' = persistStacks(writes, Store)
          /\ persistPromise' = NewWrite(writes)
          /\ flushes' = flushes \cup {[awaits |-> NewWrite(writes),
                                       doc |-> serializeStacks(Store)]}
  /\ UNCHANGED <<stacks, known, detached, loaded, loadPromise, seedStage, waiters,
                 tasks, durable>>

\* storage holds exactly the windows with a non-empty stack, each with its stack
Persisted ==
  /\ DOMAIN durable = {w \in WindowIds : stacks[w] # <<>>}
  /\ \A w \in DOMAIN durable : durable[w] = stacks[w]

\* the documents storage may hold when the worker starts
DurableDocs == {<<>>} \cup {[w \in {1} |-> <<5, 3>>]}

PersistInit == writes = <<>> /\ durable = <<>> /\ flushes = {} /\ timers = 0

(***************************************************************************)
(* The storage read of the MRU store, and storage failures.                *)
(***************************************************************************)
VARIABLES
  reads,     \* storageArea.get calls issued so far (one by the construction)
  failed     \* history: the storage calls that failed so far ("load", "write")

ioVars == <<reads, failed>>

\* ensureLoaded without the test of loadPromise
ensureLoadedEach(ld, lp) == IF ld THEN 0 ELSE 1

\* ensureLoaded: the number of storage reads the call issues
ensureLoaded(ld, lp) == IF ld THEN 0 ELSE IF lp THEN 0 ELSE 1

\* the step calls ensureLoaded (an operation's first await, or ensure)
Ensured == reads' = reads + ensureLoaded(loaded, loadPromise)

IoInit == reads = 1 /\ failed = {}

(***************************************************************************)
(* One logical navigation: the host replaces tab `old` by tab `new` in     *)
(* window w and reports it with a tab-replaced and a tab-removed event     *)
(* about `old`, in either order.  `pair` is the history of the two events. *)
(***************************************************************************)
VARIABLES pair

pairVars == <<pair>>

NoPair == [w |-> NoWin, old |-> NoTab, new |-> NoTab, replaced |-> FALSE,
           removed |-> FALSE, first |-> "none", activated |-> NoTab]

\* the navigations the host may report
Pairs ==
  {p \in {[NoPair EXCEPT !.w = w, !.old = old, !.new = new] :
              w \in WindowIds, old \in TabIds, new \in TabIds} : p.old # p.new}

\* the history after a step: the tab the remove handler passed to
\* chrome.tabs.update, if this step ended it
Noted(p) ==
  pair' = IF out'.src = "removed" /\ out'.t = p.old /\ out'.tab # NoTab
          THEN [p EXCEPT !.activated = out'.tab]
          ELSE p

\* chrome.tabs.onReplaced(new, old) is delivered
PairReplaced ==
  /\ ~pair.replaced
  /\ OnReplaced(pair.new, pair.old)
  /\ Noted([pair EXCEPT !.replaced = TRUE,
                        !.first = IF pair.removed THEN @ ELSE "replaced"])

\* chrome.tabs.onRemoved(old, { windowId: w, isWindowClosing: false }) is delivered
PairRemoved ==
  /\ ~pair.removed
  /\ OnRemoved(pair.w, pair.old, FALSE)
  /\ Noted([pair EXCEPT !.removed = TRUE,
                        !.first = IF pair.replaced THEN @ ELSE "removed"])

\* both events were delivered and their handlers have run to the end
PairHandled ==
  /\ pair.replaced /\ pair.removed
  /\ loaded /\ waiters = <<>> /\ conts = <<>> /\ gets = {}

PairInit == pair = NoPair

(***************************************************************************)
(* Host events in their order of delivery.                                 *)
(*                                                                         *)
(* Each delivered event gets the next number; `applied` lists, in the      *)
(* order they took effect, the first store mutation of each event.         *)
(***************************************************************************)
VARIABLES
  delivered,  \* number of host events delivered so far
  queries,    \* onFocusChanged handlers at `await chrome.tabs.query`: [n, w]
  stamps,     \* for each call in `waiters`, the event it belongs to
  applied     \* history: [n, w] of the events whose mutation has taken effect

orderVars == <<delivered, queries, stamps, applied>>

NoStamp == [n |-> 0, w |-> NoWin]

\* a listener whose store call is made in the listener itself:
\* onActivated, onCreated, onUpdated, onRemoved
Delivered(o) ==
  /\ delivered < MaxEvents
  /\ Call(o)
  /\ delivered' = delivered + 1
  /\ IF loaded
     THEN /\ applied' = Append(applied, [n |-> delivered + 1, w |-> o.w])
          /\ UNCHANGED stamps
     ELSE /\ stamps' = Append(stamps, [n |-> delivered + 1, w |-> o.w])
          /\ UNCHANGED applied
  /\ UNCHANGED queries

\* chrome.windows.onFocusChanged up to `await chrome.tabs.query`
OnFocusChanged(w) ==
  /\ delivered < MaxEvents
  /\ Drained
  /\ Cardinality(queries) < MaxPending
  /\ delivered' = delivered + 1
  /\ queries' = queries \cup {[n |-> delivered + 1, w |-> w]}
  /\ UNCHANGED <<stacks, known, detached, loaded, loadPromise, persistTimer,
                 persistPromise, seedStage, waiters, tasks, stamps, applied>>

\* the query resolves with the active tab t (NoTab: none): touch, then
\* backfill up to its own query
FocusQueried(q, t) ==
  /\ q \in queries
  /\ Drained
  /\ Pending < MaxPending
  /\ queries' = queries \ {q}
  /\ IF loaded
     THEN /\ Becomes(StartBackfill(
                      ensure(IF t # NoTab THEN touch(Store, q.w, t) ELSE Store, q.w),
                      q.w))
          /\ applied' = IF t # NoTab THEN Append(applied, q) ELSE applied
          /\ UNCHANGED <<waiters, stamps>>
     ELSE /\ waiters' = waiters
                        \o (IF t # NoTab THEN <<OpRec("touch", q.w, t, 0)>> ELSE <<>>)
                        \o <<OpRec("backfill", q.w, 0, 0)>>
          /\ stamps' = stamps \o (IF t # NoTab THEN <<q>> ELSE <<>>) \o <<NoStamp>>
          /\ UNCHANGED <<stacks, known, detached, persistTimer, tasks, applied>>
  /\ UNCHANGED <<loaded, loadPromise, persistPromise, seedStage, delivered>>

\* a waiting call resumes after the load
Resumed ==
  /\ ResumeWaiter
  /\ stamps' = Tail(stamps)
  /\ applied' = IF Head(stamps) = NoStamp THEN applied ELSE Append(applied, Head(stamps))
  /\ UNCHANGED <<delivered, queries>>

OrderInit == delivered = 0 /\ queries = {} /\ stamps = <<>> /\ applied = <<>>

(***************************************************************************)
(* The selection from end to end: getHudItems builds the snapshot from the *)
(* stack and the live tabs of the window, the HUD finalizes an index of    *)
(* that snapshot, and the mru-finalize handler passes the index to         *)
(* activateAt, which reads the stack again.                                *)
(***************************************************************************)
VARIABLES
  shot,           \* the last snapshot sent to the HUD: its window and the ids of its items
  picked          \* the last finalize: the index from the HUD and the tab activateAt chose

selVars == <<shot, picked>>

NoShot == [w |-> NoWin, ids |-> <<>>]
NoPick == [k |-> 0, tab |-> NoTab]

\* getHudItems from the tab query on: the ids of the items, the entries of
\* the stack that are tabs of the window, in stack order
getHudItems(stack, tabs) == SelectSeq(stack, LAMBDA id : id \in tabs)

\* the mru-request handler answers for window w, whose tabs are `tabs`
HudItemsSent(w, tabs) ==
  /\ loaded
  /\ Drained
  /\ Len(stacks[w]) > 0
  /\ shot' = [w |-> w, ids |-> getHudItems(stacks[w], tabs)]
  /\ picked' = NoPick
  /\ UNCHANGED storeVars

\* the HUD finalizes index k of the snapshot it holds, and the mru-finalize
\* handler runs activateAt(windowId, Math.max(0, index))
HudFinalized(k) ==
  /\ loaded
  /\ Drained
  /\ shot # NoShot
  /\ k \in 0..(Len(shot.ids) - 1)
  /\ picked' = [k |-> k, tab |-> activateAt(stacks[shot.w], Max(0, k))]
  /\ UNCHANGED <<shot, storeVars>>

SelInit == shot = NoShot /\ picked = NoPick

(***************************************************************************)
(* Specifications.  Each one runs one part of the program from the state   *)
(* after construction; the parts it does not run stay as constructed.      *)
(***************************************************************************)
vars == <<storeVars, routerVars, favVars, hudVars, aliasVars, seedVars, capVars, pairVars, persistVars, ioVars, orderVars, sessVars, selVars>>

Init == StoreInit /\ RouterInit /\ FavInit /\ HudInitOf(BackgroundTs) /\ AliasInit /\ SeedInit /\ CapInit /\ PairInit /\ PersistInit /\ IoInit /\ OrderInit /\ SessInit /\ SelInit

\* SpecStore: the store's operations called in any order, interleaved at
\* their awaits (the load, backfill's tab query, seedAll's window queries)
StoreOnly == UNCHANGED <<lastOp, routerVars, favVars, hudVars, aliasVars, seedVars, capVars, pairVars, persistVars, ioVars, orderVars, sessVars, selVars>>

StoreNext ==
  \/ \E w \in WindowIds, t \in TabIds : Touch(w, t) /\ StoreOnly
  \/ \E w \in WindowIds, t \in TabIds : AppendTab(w, t) /\ StoreOnly
  \/ \E w \in WindowIds, t \in TabIds : Remove(w, t) /\ StoreOnly
  \/ \E w \in WindowIds, from \in TabIds, to \in TabIds : Replace(w, from, to) /\ StoreOnly
  \/ \E w \in WindowIds : Backfill(w) /\ StoreOnly
  \/ SeedAll /\ StoreOnly
  \/ \E w \in WindowIds : GetStack(w) /\ StoreOnly
  \/ ResumeWaiter /\ StoreOnly
  \/ \E doc \in StoredDocs : LoadDone(doc) /\ StoreOnly
  \/ LoadFailed /\ StoreOnly
  \/ \E task \in BagToSet(tasks), tabs \in TabLists : BackfillDone(task, tabs) /\ StoreOnly
  \/ \E w \in WindowIds, tabs \in TabLists : SeedCurrentDone(w, tabs) /\ StoreOnly
  \/ SeedCurrentFailed /\ StoreOnly
  \/ \E w \in WindowIds, tabs \in TabLists : SeedFirstDone(w, tabs) /\ StoreOnly
  \/ SeedFirstNone /\ StoreOnly

SpecStore == Init /\ [][StoreNext]_vars

\* SpecOps: touch, append, remove, replace, getStack and the load, one call
\* after the other, with the last completed operation recorded
\* a call records itself when its synchronous section runs at once
Records(o) == lastOp' = (IF loaded THEN Did(o) ELSE lastOp) /\ UNCHANGED <<routerVars, favVars, hudVars, aliasVars, seedVars, capVars, pairVars, persistVars, ioVars, orderVars, sessVars, selVars>>

OpsNext ==
  \/ \E w \in WindowIds, t \in TabIds : Touch(w, t) /\ Records(OpRec("touch", w, t, 0))
  \/ \E w \in WindowIds, t \in TabIds :
       AppendTab(w, t) /\ Records(OpRec("append", w, t, 0))
  \/ \E w \in WindowIds, t \in TabIds : Remove(w, t) /\ Records(OpRec("remove", w, t, 0))
  \/ \E w \in WindowIds, from \in TabIds, to \in TabIds :
       Replace(w, from, to) /\ Records(OpRec("replace", w, from, to))
  \/ \E w \in WindowIds :
       GetStack(w) /\ lastOp' = [NoOp EXCEPT !.op = "getStack", !.w = w]
                   /\ UNCHANGED <<routerVars, favVars, hudVars, aliasVars, seedVars, capVars, pairVars, persistVars, ioVars, orderVars, sessVars, selVars>>
  \/ ResumeWaiter /\ lastOp' = Did(Head(waiters)) /\ UNCHANGED <<routerVars, favVars, hudVars, aliasVars, seedVars, capVars, pairVars, persistVars, ioVars, orderVars, sessVars, selVars>>
  \/ \E doc \in StoredDocs :
       LoadDone(doc) /\ lastOp' = [NoOp EXCEPT !.op = "load"] /\ UNCHANGED <<routerVars, favVars, hudVars, aliasVars, seedVars, capVars, pairVars, persistVars, ioVars, orderVars, sessVars, selVars>>
  \/ LoadFailed /\ lastOp' = [NoOp EXCEPT !.op = "loadFailed"] /\ UNCHANGED <<routerVars, favVars, hudVars, aliasVars, seedVars, capVars, pairVars, persistVars, ioVars, orderVars, sessVars, selVars>>

SpecOps == Init /\ [][OpsNext]_vars

\* SpecTabs: the tab listeners (activated, removed, replaced) and
\* the load
RouterOnly == UNCHANGED <<lastOp, favVars, hudVars, aliasVars, seedVars, capVars, pairVars, persistVars, ioVars, orderVars, sessVars, selVars>>

TabsNext ==
  \/ \E w \in WindowIds, t \in TabIds : OnActivated(w, t) /\ RouterOnly
  \/ \E w \in WindowIds, t \in TabIds, closing \in BOOLEAN :
       OnRemoved(w, t, closing) /\ RouterOnly
  \/ \E added \in TabIds, removed \in TabIds : OnReplaced(added, removed) /\ RouterOnly
  \/ \E g \in gets, w \in WindowIds, active \in BOOLEAN :
       TabsGetDone(g, w, active) /\ RouterOnly
  \/ \E g \in gets : TabsGetFailed(g) /\ RouterOnly
  \/ RouterResume /\ RouterOnly
  \/ RunCont /\ RouterOnly
  \/ \E doc \in StoredDocs : RouterLoad(doc) /\ RouterOnly
  \/ RouterLoadFailed /\ RouterOnly

SpecTabs == Init /\ [][TabsNext]_vars

\* SpecFinalize: mru-finalize messages between tab events, the load and
\* the seeding that ensureSeeded starts
FinalizeNext ==
  \/ \E msg \in FinalizeMsgs : FinalizeMsg(msg) /\ RouterOnly
  \/ FinNoWindow /\ RouterOnly
  \/ \E w \in WindowIds : FinCurrent(w) /\ RouterOnly
  \/ FinLoaded /\ RouterOnly
  \/ FinSeeded /\ RouterOnly
  \/ \E w \in WindowIds, t \in TabIds : OnActivated(w, t) /\ RouterOnly
  \/ \E w \in WindowIds, t \in TabIds, active \in BOOLEAN :
       OnCreated(w, t, active) /\ RouterOnly
  \/ \E w \in WindowIds, t \in TabIds : OnDetached(w, t) /\ RouterOnly
  \/ RouterResume /\ RouterOnly
  \/ \E doc \in StoredDocs : RouterLoad(doc) /\ RouterOnly
  \/ RouterLoadFailed /\ RouterOnly
  \/ \E w \in WindowIds, tabs \in TabLists : Seeding(SeedCurrentDone(w, tabs)) /\ RouterOnly
  \/ Seeding(SeedCurrentFailed) /\ RouterOnly
  \/ \E w \in WindowIds, tabs \in TabLists : Seeding(SeedFirstDone(w, tabs)) /\ RouterOnly
  \/ Seeding(SeedFirstNone) /\ RouterOnly

SpecFinalize == Init /\ [][FinalizeNext]_vars

\* SpecFavicon: resolve calls, the fetches they start, the load, the clock
\* and the persistence timer of the favicon store
FavOnly == UNCHANGED <<storeVars, routerVars, hudVars, aliasVars, seedVars, capVars, pairVars, persistVars, ioVars, orderVars, sessVars, selVars>>

FavNext ==
  \/ \E tab \in Tabs : Resolve(tab) /\ FavOnly
  \/ ResolveResume /\ FavOnly
  \/ \E f \in BagToSet(fetching), ok \in BOOLEAN : FetchSettled(f, ok) /\ FavOnly
  \/ \E doc \in StoredCaches : FavLoadDone(doc) /\ FavOnly
  \/ FavLoadFailed /\ FavOnly
  \/ FavPersistFire /\ FavOnly
  \/ FavPersistDone /\ FavOnly
  \/ Tick /\ FavOnly

SpecFavicon == Init /\ [][FavNext]_vars

\* SpecHud: the key events of a page, the snapshot responses and the reveal
\* timer, for either HUD script
HudOnly == UNCHANGED <<storeVars, routerVars, favVars, aliasVars, seedVars, capVars, pairVars, persistVars, ioVars, orderVars, sessVars, selVars>>

HudNext ==
  \/ \E code \in ModifierKeyCodes : AltDown(code) /\ HudOnly
  \/ \E code \in ModifierKeyCodes : AltUp(code) /\ HudOnly
  \/ \E shift \in BOOLEAN, repeat \in BOOLEAN : TabDown(shift, repeat) /\ HudOnly
  \/ OtherKeyDown /\ HudOnly
  \/ OtherKeyUp /\ HudOnly
  \/ \E delta \in BagToSet(requests), n \in 0..MaxItems : Response(delta, n) /\ HudOnly
  \/ TimerFire /\ HudOnly

\* either script may be the one that runs
InitHud == StoreInit /\ RouterInit /\ FavInit /\ HudInit /\ AliasInit /\ SeedInit /\ CapInit /\ PairInit /\ PersistInit /\ IoInit /\ OrderInit /\ SessInit /\ SelInit

SpecHud == InitHud /\ [][HudNext]_vars

\* SpecSession: the HUD of background.ts, with the modifier keys also going
\* down while the page does not get the key events
SessionOnly == UNCHANGED <<storeVars, routerVars, favVars, aliasVars, seedVars, capVars, pairVars, persistVars, ioVars, orderVars, selVars>>

SessionNext ==
  \/ \E code \in ModifierKeyCodes : AltDown(code) /\ Tracked /\ SessionOnly
  \/ \E code \in ModifierKeyCodes : AltUp(code) /\ Tracked /\ SessionOnly
  \/ \E code \in ModifierKeyCodes : AltDownElsewhere(code) /\ Tracked /\ SessionOnly
  \/ \E shift \in BOOLEAN, repeat \in BOOLEAN : TabDown(shift, repeat) /\ Tracked /\ SessionOnly
  \/ OtherKeyDown /\ Tracked /\ SessionOnly
  \/ OtherKeyUp /\ Tracked /\ SessionOnly
  \/ \E delta \in BagToSet(requests), n \in 0..MaxItems : Response(delta, n) /\ Tracked /\ SessionOnly
  \/ TimerFire /\ Tracked /\ SessionOnly

SpecSession == Init /\ [][SessionNext]_vars

\* SpecSessionFair: SpecSession where a reveal timer that stays set fires
\* (setTimeout runs its callback once the delay has elapsed)
SpecSessionFair ==
  Init /\ [][SessionNext]_vars /\ WF_vars(TimerFire /\ Tracked /\ SessionOnly)

\* SpecSelect: snapshots and finalizes of the HUD between the load and the
\* store's touch, append and remove
SelectOnly == UNCHANGED <<routerVars, favVars, hudVars, aliasVars, seedVars, capVars, pairVars, persistVars, ioVars, orderVars, sessVars>>

SelectNext ==
  \/ \E doc \in StoredDocs : LoadDone(doc) /\ StoreOnly
  \/ \E w \in WindowIds, t \in TabIds : Touch(w, t) /\ StoreOnly
  \/ \E w \in WindowIds, t \in TabIds : AppendTab(w, t) /\ StoreOnly
  \/ \E w \in WindowIds, t \in TabIds : Remove(w, t) /\ StoreOnly
  \/ ResumeWaiter /\ StoreOnly
  \/ \E w \in WindowIds, tabs \in SUBSET TabIds : HudItemsSent(w, tabs) /\ SelectOnly
  \/ \E k \in 0..MaxItems : HudFinalized(k) /\ SelectOnly

SpecSelect == Init /\ [][SelectNext]_vars

\* SpecFocus: the key events, the responses, the reveal timer and the loss of
\* the focus, for background.ts and for content.js
InitFocus ==
  /\ StoreInit /\ RouterInit /\ FavInit /\ AliasInit /\ SeedInit /\ CapInit /\ PairInit
  /\ PersistInit /\ IoInit /\ OrderInit /\ SessInit /\ SelInit
  /\ \E s \in {BackgroundTs, ContentJs} : HudInitOf(s)

FocusNext ==
  \/ \E code \in ModifierKeyCodes : AltDown(code) /\ Tracked /\ SessionOnly
  \/ \E code \in ModifierKeyCodes : AltUp(code) /\ Tracked /\ SessionOnly
  \/ \E shift \in BOOLEAN, repeat \in BOOLEAN : TabDown(shift, repeat) /\ Tracked /\ SessionOnly
  \/ OtherKeyDown /\ Tracked /\ SessionOnly
  \/ OtherKeyUp /\ Tracked /\ SessionOnly
  \/ \E delta \in BagToSet(requests), n \in 0..MaxItems : Response(delta, n) /\ Tracked /\ SessionOnly
  \/ TimerFire /\ Tracked /\ SessionOnly
  \/ Blur /\ Tracked /\ SessionOnly

SpecFocus == InitFocus /\ [][FocusNext]_vars

\* SpecAlias: touch, append, remove, replace and the load, around a caller
\* that keeps the array getStack gave it
Holding(o) ==
  /\ lastOp' = (IF loaded THEN Did(o) ELSE lastOp)
  /\ Kept
  /\ UNCHANGED <<routerVars, favVars, hudVars, seedVars, capVars, pairVars, persistVars, ioVars, orderVars, sessVars, selVars>>

AliasNext ==
  \/ \E w \in WindowIds, t \in TabIds : Touch(w, t) /\ Holding(OpRec("touch", w, t, 0))
  \/ \E w \in WindowIds, t \in TabIds :
       AppendTab(w, t) /\ Holding(OpRec("append", w, t, 0))
  \/ \E w \in WindowIds, t \in TabIds : Remove(w, t) /\ Holding(OpRec("remove", w, t, 0))
  \/ \E w \in WindowIds, from \in TabIds, to \in TabIds :
       Replace(w, from, to) /\ Holding(OpRec("replace", w, from, to))
  \/ \E w \in WindowIds :
       Keep(w) /\ lastOp' = [NoOp EXCEPT !.op = "getStack", !.w = w]
               /\ UNCHANGED <<routerVars, favVars, hudVars, seedVars, capVars, pairVars, persistVars, ioVars, orderVars, sessVars, selVars>>
  \/ Pop /\ lastOp' = [NoOp EXCEPT !.op = "pop", !.w = view.w]
         /\ UNCHANGED <<routerVars, favVars, hudVars, seedVars, capVars, pairVars, persistVars, ioVars, orderVars, sessVars, selVars>>
  \/ ResumeWaiter /\ lastOp' = Did(Head(waiters)) /\ Kept
                  /\ UNCHANGED <<routerVars, favVars, hudVars, seedVars, capVars, pairVars, persistVars, ioVars, orderVars, sessVars, selVars>>
  \/ \E doc \in StoredDocs :
       LoadDone(doc) /\ lastOp' = [NoOp EXCEPT !.op = "load"] /\ Kept
                     /\ UNCHANGED <<routerVars, favVars, hudVars, seedVars, capVars, pairVars, persistVars, ioVars, orderVars, sessVars, selVars>>
  \/ LoadFailed /\ lastOp' = [NoOp EXCEPT !.op = "loadFailed"] /\ Kept
                /\ UNCHANGED <<routerVars, favVars, hudVars, seedVars, capVars, pairVars, persistVars, ioVars, orderVars, sessVars, selVars>>

SpecAlias == Init /\ [][AliasNext]_vars

\* SpecBackfill: backfill between touch, append and remove, with the tab
\* list each backfill was given recorded when it completes
Started(o) ==
  /\ lastOp' = (IF loaded THEN Did(o) ELSE lastOp)
  /\ UNCHANGED <<routerVars, favVars, hudVars, aliasVars, seedVars, capVars, pairVars, persistVars, ioVars, orderVars, sessVars, selVars>>

BackfillNext ==
  \/ \E w \in WindowIds, t \in TabIds : Touch(w, t) /\ Started(OpRec("touch", w, t, 0))
  \/ \E w \in WindowIds, t \in TabIds :
       AppendTab(w, t) /\ Started(OpRec("append", w, t, 0))
  \/ \E w \in WindowIds, t \in TabIds : Remove(w, t) /\ Started(OpRec("remove", w, t, 0))
  \/ \E w \in WindowIds : Backfill(w) /\ Started(OpRec("backfill", w, 0, 0))
  \/ ResumeWaiter /\ Started(Head(waiters))
  \/ \E task \in BagToSet(tasks), tabs \in TabLists :
       /\ BackfillDone(task, tabs)
       /\ lastOp' = [NoOp EXCEPT !.op = "backfilled", !.w = task.w, !.tabs = tabs]
       /\ UNCHANGED <<routerVars, favVars, hudVars, aliasVars, seedVars, capVars, pairVars, persistVars, ioVars, orderVars, sessVars, selVars>>
  \/ \E doc \in StoredDocs :
       LoadDone(doc) /\ lastOp' = [NoOp EXCEPT !.op = "load"]
                     /\ UNCHANGED <<routerVars, favVars, hudVars, aliasVars, seedVars, capVars, pairVars, persistVars, ioVars, orderVars, sessVars, selVars>>
  \/ LoadFailed /\ lastOp' = [NoOp EXCEPT !.op = "loadFailed"]
                /\ UNCHANGED <<routerVars, favVars, hudVars, aliasVars, seedVars, capVars, pairVars, persistVars, ioVars, orderVars, sessVars, selVars>>

SpecBackfill == Init /\ [][BackfillNext]_vars

\* SpecSeed: seedAll calls, the window queries of performSeedAll answered
\* from the host's windows, the load, and activations of live tabs; the
\* host's windows stay as they are
InitSeed ==
  /\ StoreInit /\ RouterInit /\ FavInit /\ HudInitOf(BackgroundTs) /\ AliasInit
  /\ CapInit /\ PairInit /\ PersistInit /\ IoInit /\ OrderInit /\ SessInit /\ SelInit
  /\ browser \in Browsers
  /\ seeded = FALSE
  /\ activeTab = NoActive

SeedOnly == UNCHANGED <<routerVars, favVars, hudVars, aliasVars, capVars, pairVars, persistVars, ioVars, orderVars, sessVars, selVars>>

SeedNext ==
  \/ /\ SeedAll
     /\ lastOp' = (IF loaded THEN Did(OpRec("seedAll", 0, 0, 0)) ELSE lastOp)
     /\ UNCHANGED seedVars /\ SeedOnly
  \/ \E w \in OpenWindows, i \in 1..Cardinality(TabIds) :
       /\ i <= Len(browser[w])
       /\ Touch(w, browser[w][i])
       /\ lastOp' = (IF loaded THEN Did(OpRec("touch", w, browser[w][i], 0)) ELSE lastOp)
       /\ UNCHANGED seedVars /\ SeedOnly
  \/ ResumeWaiter /\ lastOp' = Did(Head(waiters)) /\ UNCHANGED seedVars /\ SeedOnly
  \/ \E doc \in StoredDocs :
       LoadDone(doc) /\ lastOp' = [NoOp EXCEPT !.op = "load"]
                     /\ UNCHANGED seedVars /\ SeedOnly
  \/ LoadFailed /\ lastOp' = [NoOp EXCEPT !.op = "loadFailed"]
                /\ UNCHANGED seedVars /\ SeedOnly
  \/ \E w \in WindowIds :
       SeedCurrent(w) /\ lastOp' = [NoOp EXCEPT !.op = "seeded", !.w = w] /\ SeedOnly
  \/ SeedCurrentFailed /\ lastOp' = [NoOp EXCEPT !.op = "getCurrentFailed"]
                       /\ UNCHANGED seedVars /\ SeedOnly
  \/ \E w \in WindowIds :
       SeedFirst(w) /\ lastOp' = [NoOp EXCEPT !.op = "seeded", !.w = w] /\ SeedOnly
  \/ SeedNone /\ lastOp' = [NoOp EXCEPT !.op = "seeded"] /\ SeedOnly

SpecSeed == InitSeed /\ [][SeedNext]_vars

\* SpecFavHosted: SpecFavicon for tabs whose URL has a hostname (every
\* resolve call then has the hostname candidates to go on to)
HostedTabs == {tab \in Tabs : tab.hostname # NoHost}

FavHostedNext ==
  \/ \E tab \in HostedTabs : Resolve(tab) /\ FavOnly
  \/ ResolveResume /\ FavOnly
  \/ \E f \in BagToSet(fetching), ok \in BOOLEAN : FetchSettled(f, ok) /\ FavOnly
  \/ \E doc \in StoredCaches : FavLoadDone(doc) /\ FavOnly
  \/ FavLoadFailed /\ FavOnly
  \/ FavPersistFire /\ FavOnly
  \/ FavPersistDone /\ FavOnly
  \/ Tick /\ FavOnly

SpecFavHosted == Init /\ [][FavHostedNext]_vars

\* SpecPrune: the favicon store with its maps capped at 1..MaxCap entries
\* and stored entries that expire at different times
InitPrune ==
  /\ StoreInit /\ RouterInit /\ FavInit /\ HudInitOf(BackgroundTs) /\ AliasInit
  /\ SeedInit /\ PairInit /\ PersistInit /\ IoInit /\ OrderInit /\ SessInit /\ SelInit
  /\ maxEntries \in [{"url", "host"} -> 1..MaxCap]

PruneNext ==
  \/ \E tab \in Tabs : Resolve(tab) /\ FavOnly
  \/ ResolveResume /\ FavOnly
  \/ \E f \in BagToSet(fetching), ok \in BOOLEAN : FetchSettled(f, ok) /\ FavOnly
  \/ \E doc \in CrowdedCaches : FavLoadDone(doc) /\ FavOnly
  \/ FavLoadFailed /\ FavOnly
  \/ FavPersistFire /\ FavOnly
  \/ FavPersistDone /\ FavOnly
  \/ Tick /\ FavOnly

SpecPrune == InitPrune /\ [][PruneNext]_vars

\* SpecPair: activations that set the stacks up, then the two events of one
\* navigation in either order, with the load and the handlers' awaits
\* between them
InitPair ==
  /\ StoreInit /\ RouterInit /\ FavInit /\ HudInitOf(BackgroundTs) /\ AliasInit
  /\ SeedInit /\ CapInit /\ PersistInit /\ IoInit /\ OrderInit /\ SessInit /\ SelInit
  /\ pair \in Pairs

PairOnly == UNCHANGED <<lastOp, favVars, hudVars, aliasVars, seedVars, capVars, persistVars, ioVars, orderVars, sessVars, selVars>>

PairNext ==
  \/ \E w \in WindowIds, t \in TabIds \ {pair.new} :
       /\ ~pair.replaced /\ ~pair.removed
       /\ OnActivated(w, t) /\ Noted(pair) /\ PairOnly
  \/ PairReplaced /\ PairOnly
  \/ PairRemoved /\ PairOnly
  \/ \E g \in gets, active \in BOOLEAN :
       TabsGetDone(g, pair.w, active) /\ Noted(pair) /\ PairOnly
  \/ RouterResume /\ Noted(pair) /\ PairOnly
  \/ RunCont /\ Noted(pair) /\ PairOnly
  \/ \E doc \in StoredDocs : RouterLoad(doc) /\ Noted(pair) /\ PairOnly
  \/ RouterLoadFailed /\ Noted(pair) /\ PairOnly

SpecPair == InitPair /\ [][PairNext]_vars

\* SpecActive: the host's windows, each open one with an active tab; tabs
\* are activated and updated, windows are seeded and backfilled
InitActive ==
  /\ StoreInit /\ RouterInit /\ FavInit /\ HudInitOf(BackgroundTs) /\ AliasInit
  /\ CapInit /\ PairInit /\ PersistInit /\ IoInit /\ OrderInit /\ SessInit /\ SelInit
  /\ browser \in Browsers
  /\ seeded = FALSE
  /\ activeTab \in [WindowIds -> TabIds \cup {NoTab}]
  /\ \A w \in WindowIds :
       IF browser[w] = <<>> THEN activeTab[w] = NoTab
                            ELSE Includes(browser[w], activeTab[w])

ActiveNext ==
  \/ \E w \in WindowIds, t \in TabIds :
       /\ HostActivated(w, t)
       /\ lastOp' = (IF loaded THEN Did(OpRec("touch", w, t, 0)) ELSE lastOp)
       /\ SeedOnly
  \/ \E w \in WindowIds, t \in TabIds :
       /\ HostUpdated(w, t)
       /\ Started(OpRec(IF activeTab[w] = t THEN "touch" ELSE "append", w, t, 0))
  \/ \E w \in OpenWindows : Backfill(w) /\ Started(OpRec("backfill", w, 0, 0))
                                         /\ UNCHANGED seedVars
  \/ \E task \in BagToSet(tasks) :
       /\ HostQueried(task)
       /\ lastOp' = [NoOp EXCEPT !.op = "backfilled", !.w = task.w,
                                 !.tabs = browser[task.w]]
       /\ SeedOnly
  \/ SeedAll /\ Started(OpRec("seedAll", 0, 0, 0)) /\ UNCHANGED seedVars
  \/ ResumeWaiter /\ Started(Head(waiters)) /\ UNCHANGED seedVars
  \/ \E doc \in StoredDocs :
       LoadDone(doc) /\ lastOp' = [NoOp EXCEPT !.op = "load"]
                     /\ UNCHANGED seedVars /\ SeedOnly
  \/ LoadFailed /\ lastOp' = [NoOp EXCEPT !.op = "loadFailed"]
                /\ UNCHANGED seedVars /\ SeedOnly
  \/ \E w \in WindowIds :
       SeedCurrent(w) /\ lastOp' = [NoOp EXCEPT !.op = "seeded", !.w = w] /\ SeedOnly
  \/ SeedCurrentFailed /\ lastOp' = [NoOp EXCEPT !.op = "getCurrentFailed"]
                       /\ UNCHANGED seedVars /\ SeedOnly
  \/ \E w \in WindowIds :
       SeedFirst(w) /\ lastOp' = [NoOp EXCEPT !.op = "seeded", !.w = w] /\ SeedOnly
  \/ SeedNone /\ lastOp' = [NoOp EXCEPT !.op = "seeded"] /\ SeedOnly

SpecActive == InitActive /\ [][ActiveNext]_vars

\* SpecPersist: touches and removals in window 1, the load of the durable document, the
\* debounce timer, flushPersist calls, and writes that succeed or fail
InitPersist ==
  /\ StoreInit /\ RouterInit /\ FavInit /\ HudInitOf(BackgroundTs) /\ AliasInit
  /\ SeedInit /\ CapInit /\ PairInit /\ IoInit /\ OrderInit /\ SessInit /\ SelInit
  /\ writes = <<>> /\ flushes = {} /\ timers = 0
  /\ durable \in DurableDocs

PersistOnly ==
  UNCHANGED <<routerVars, favVars, hudVars, aliasVars, seedVars, capVars, pairVars,
              orderVars, sessVars, selVars>>

Stepped(name) == lastOp' = [NoOp EXCEPT !.op = name] /\ PersistOnly

Failing(what) == failed' = failed \cup {what} /\ UNCHANGED reads

PersistNext ==
  \/ \E t \in {3, 5} :
       /\ Mutate(OpRec("touch", 1, t, 0))
       /\ lastOp' = (IF loaded THEN [NoOp EXCEPT !.op = "touch"] ELSE lastOp)
       /\ PersistOnly /\ UNCHANGED ioVars
  \/ \E t \in {3, 5} :
       /\ Mutate(OpRec("remove", 1, t, 0))
       /\ lastOp' = (IF loaded THEN [NoOp EXCEPT !.op = "remove"] ELSE lastOp)
       /\ PersistOnly /\ UNCHANGED ioVars
  \/ MutateResumed /\ Stepped(Head(waiters).op) /\ UNCHANGED ioVars
  \/ Loaded /\ Stepped("load") /\ UNCHANGED ioVars
  \/ LoadFailed /\ UNCHANGED persistVars /\ Stepped("loadFailed") /\ UNCHANGED ioVars
  \/ TimerFired /\ Stepped("timer") /\ UNCHANGED ioVars
  \/ WriteDone /\ Stepped("written") /\ UNCHANGED ioVars
  \/ WriteFailed /\ Stepped("writeFailed") /\ UNCHANGED ioVars
  \/ FlushPersist /\ Stepped("flush") /\ UNCHANGED ioVars

SpecPersist == InitPersist /\ [][PersistNext]_vars

\* SpecPersistFair: mutations, getStack calls for window 2, the load, the debounce timer and writes that
\* succeed, without flushPersist; a pending timeout eventually fires and a
\* write in flight eventually calls back
PersistFairNext ==
  \/ \E t \in {3, 5} :
       /\ Mutate(OpRec("touch", 1, t, 0))
       /\ lastOp' = (IF loaded THEN [NoOp EXCEPT !.op = "touch"] ELSE lastOp)
       /\ PersistOnly /\ UNCHANGED ioVars
  \/ \E t \in {3, 5} :
       /\ Mutate(OpRec("remove", 1, t, 0))
       /\ lastOp' = (IF loaded THEN [NoOp EXCEPT !.op = "remove"] ELSE lastOp)
       /\ PersistOnly /\ UNCHANGED ioVars
  \/ MutateResumed /\ Stepped(Head(waiters).op) /\ UNCHANGED ioVars
  \/ \E w \in {2} :
       GetStack(w) /\ UNCHANGED persistVars /\ Stepped("getStack") /\ UNCHANGED ioVars
  \/ Loaded /\ Stepped("load") /\ UNCHANGED ioVars
  \/ LoadFailed /\ UNCHANGED persistVars /\ Stepped("loadFailed") /\ UNCHANGED ioVars
  \/ TimerFired /\ Stepped("timer") /\ UNCHANGED ioVars
  \/ WriteDone /\ Stepped("written") /\ UNCHANGED ioVars

SpecPersistFair ==
  /\ InitPersist /\ [][PersistFairNext]_vars
  /\ WF_vars(TimerFired /\ Stepped("timer") /\ UNCHANGED ioVars)
  /\ WF_vars(WriteDone /\ Stepped("written") /\ UNCHANGED ioVars)

\* SpecLoad: operations and getStack calls made before and after the storage
\* read calls back with a stored document or with an error
InitLoad ==
  /\ StoreInit /\ RouterInit /\ FavInit /\ HudInitOf(BackgroundTs) /\ AliasInit
  /\ SeedInit /\ CapInit /\ PairInit /\ IoInit /\ OrderInit /\ SessInit /\ SelInit
  /\ writes = <<>> /\ flushes = {} /\ timers = 0
  /\ durable \in StoredDocs \cup DurableDocs

LoadNext ==
  \/ \E w \in WindowIds, t \in TabIds :
       /\ Mutate(OpRec("touch", w, t, 0)) /\ Ensured
       /\ lastOp' = (IF loaded THEN [NoOp EXCEPT !.op = "touch"] ELSE lastOp)
       /\ PersistOnly /\ UNCHANGED failed
  \/ \E w \in WindowIds, t \in TabIds :
       /\ Mutate(OpRec("remove", w, t, 0)) /\ Ensured
       /\ lastOp' = (IF loaded THEN [NoOp EXCEPT !.op = "remove"] ELSE lastOp)
       /\ PersistOnly /\ UNCHANGED failed
  \/ \E w \in WindowIds :
       /\ GetStack(w) /\ Ensured
       /\ UNCHANGED persistVars /\ Stepped("getStack") /\ UNCHANGED failed
  \/ MutateResumed /\ Stepped(Head(waiters).op) /\ UNCHANGED ioVars
  \/ Loaded /\ Stepped("load") /\ UNCHANGED ioVars
  \/ LoadFailed /\ UNCHANGED persistVars /\ Stepped("loadFailed") /\ Failing("load")

SpecLoad == InitLoad /\ [][LoadNext]_vars

\* SpecStorage: mutations, the load and the debounced writes, where the
\* storage read and any write may fail; the failures are recorded
StorageNext ==
  \/ \E t \in {3, 5} :
       /\ Mutate(OpRec("touch", 1, t, 0))
       /\ lastOp' = (IF loaded THEN [NoOp EXCEPT !.op = "touch"] ELSE lastOp)
       /\ PersistOnly /\ UNCHANGED ioVars
  \/ \E t \in {3, 5} :
       /\ Mutate(OpRec("remove", 1, t, 0))
       /\ lastOp' = (IF loaded THEN [NoOp EXCEPT !.op = "remove"] ELSE lastOp)
       /\ PersistOnly /\ UNCHANGED ioVars
  \/ MutateResumed /\ Stepped(Head(waiters).op) /\ UNCHANGED ioVars
  \/ Loaded /\ Stepped("load") /\ UNCHANGED ioVars
  \/ LoadFailed /\ UNCHANGED persistVars /\ Stepped("loadFailed") /\ Failing("load")
  \/ TimerFired /\ Stepped("timer") /\ UNCHANGED ioVars
  \/ WriteDone /\ Stepped("written") /\ UNCHANGED ioVars
  \/ WriteFailed /\ Stepped("writeFailed") /\ Failing("write")

SpecStorage == InitPersist /\ [][StorageNext]_vars

\* SpecOrder: up to MaxEvents host events, the tab queries of the focus
\* handler and of backfill, and the load
OrderOnly ==
  UNCHANGED <<lastOp, routerVars, favVars, hudVars, aliasVars, seedVars, capVars,
              pairVars, persistVars, ioVars, sessVars, selVars>>

OrderNext ==
  \/ \E w \in WindowIds, t \in TabIds :
       Delivered(OpRec("touch", w, t, 0)) /\ OrderOnly
  \/ \E w \in WindowIds, t \in TabIds :
       Delivered(OpRec("append", w, t, 0)) /\ OrderOnly
  \/ \E w \in WindowIds, t \in TabIds :
       Delivered(OpRec("remove", w, t, 0)) /\ OrderOnly
  \/ \E w \in WindowIds : OnFocusChanged(w) /\ OrderOnly
  \/ \E q \in queries, t \in TabIds \cup {NoTab} : FocusQueried(q, t) /\ OrderOnly
  \/ \E task \in BagToSet(tasks), tabs \in TabLists :
       BackfillDone(task, tabs) /\ UNCHANGED orderVars /\ OrderOnly
  \/ Resumed /\ OrderOnly
  \/ \E doc \in StoredDocs : LoadDone(doc) /\ UNCHANGED orderVars /\ OrderOnly
  \/ LoadFailed /\ UNCHANGED orderVars /\ OrderOnly

SpecOrder == Init /\ [][OrderNext]_vars

(***************************************************************************)
(* Claims about the MRU store                                              *)
(***************************************************************************)

\* C1: in every reachable state of the store no window's stack holds a tab
\* id twice, whatever touch, append, remove, replace, backfill, seedAll and
\* the load did and however they interleaved at their awaits.
C1_NoDuplicates == \A w \in WindowIds : NoDup(stacks[w])

\* a state after the load in which a backfill is suspended while both
\* windows hold stacks, one of them with every tab
C1_Witness ==
  /\ loaded
  /\ tasks # EmptyBag
  /\ \E w \in WindowIds : Len(stacks[w]) = Cardinality(TabIds)
  /\ \A w \in WindowIds : Len(stacks[w]) >= 2

\* C2: a step that completes touch(w, t) leaves t at position 0 of w's
\* stack, whether t was absent, at position 0 or elsewhere, and the other
\* entries of that stack in their order.
C2_TouchFront ==
  [][lastOp'.op = "touch" =>
       LET w == lastOp'.w
           t == lastOp'.t
       IN /\ w \in known'
          /\ Len(stacks'[w]) >= 1
          /\ IndexOf(stacks'[w], t) = 0
          /\ Without(stacks'[w], t) = Without(stacks[w], t)
          /\ Len(stacks'[w]) = Len(Without(stacks[w], t)) + 1]_vars

\* touch has moved a tab from the last position of a three-entry stack
C2_Witness ==
  /\ lastOp.op = "touch"
  /\ lastOp.was = 2
  /\ Len(stacks[lastOp.w]) = 3

\* C3: a step that completes append(w, t) with t already in w's stack
\* changes no stack; with t absent it adds t at the tail of w's stack and
\* keeps the entries that were there, in their order.
C3_AppendFrame ==
  [][lastOp'.op = "append" =>
       LET w == lastOp'.w
           t == lastOp'.t
       IN IF Includes(stacks[w], t)
          THEN stacks' = stacks /\ known' = known
          ELSE /\ stacks'[w] = stacks[w] \o <<t>>
               /\ \A v \in WindowIds \ {w} : stacks'[v] = stacks[v]]_vars

\* append was called for a tab in the middle of a three-entry stack
C3_Witness ==
  /\ lastOp.op = "append"
  /\ lastOp.was = 1
  /\ Len(stacks[lastOp.w]) = 3

\* C13: after a step that completes a store operation (touch, append,
\* remove, replace) no window the Map has an entry for has an empty stack;
\* remove(w, t) deletes t if present and deletes w's entry when t was its
\* last tab.
C13_NoEmptyStack ==
  [][/\ lastOp'.op \in {"touch", "append", "remove", "replace"}
          => \A w \in known' : Len(stacks'[w]) > 0
     /\ lastOp'.op = "remove" =>
          LET w == lastOp'.w
              t == lastOp'.t
          IN IF Includes(stacks[w], t)
             THEN /\ stacks'[w] = Without(stacks[w], t)
                  /\ \A v \in WindowIds \ {w} : stacks'[v] = stacks[v]
                  /\ known' = IF Len(stacks'[w]) = 0 THEN known \ {w} ELSE known
             ELSE stacks' = stacks /\ known' = known]_vars

\* C14: a step that completes replace(w, from, to) with from in w's stack
\* leaves the stack with `to` in the place `from` held among the other tabs
\* (the earlier entries other than from and to before it, the later ones
\* after it), without from, with to exactly once, and returns true, whether
\* to was absent, before from or after from; with from absent it returns
\* false and changes no stack's contents.
C14_ReplaceInPlace ==
  [][lastOp'.op = "replace" =>
       LET w == lastOp'.w
           from == lastOp'.t
           to == lastOp'.to
           others == IF to = from THEN stacks[w] ELSE Without(stacks[w], to)
       IN IF Includes(stacks[w], from)
          THEN /\ stacks'[w] = [i \in DOMAIN others |->
                                  IF others[i] = from THEN to ELSE others[i]]
               /\ \A v \in WindowIds \ {w} : stacks'[v] = stacks[v]
               /\ lastOp'.ret
          ELSE stacks' = stacks /\ ~lastOp'.ret]_vars

\* C15: the step that completes backfill(w) with the window's live tabs
\* leaves every one of them in w's stack, the entries that were tracked
\* before in their places at the front (same membership, same order), and
\* the added ones after them.
C15_BackfillAppendsMissing ==
  [][lastOp'.op = "backfilled" =>
       LET w == lastOp'.w
           tabs == lastOp'.tabs
       IN /\ \A i \in DOMAIN tabs : Includes(stacks'[w], tabs[i])
          /\ Len(stacks'[w]) >= Len(stacks[w])
          /\ SubSeq(stacks'[w], 1, Len(stacks[w])) = stacks[w]
          /\ Range(stacks'[w]) = Range(stacks[w]) \cup Range(tabs)
          /\ \A v \in WindowIds \ {w} : stacks'[v] = stacks[v]]_vars

\* C31: when a backfill of window w goes on after its tab query, every tab
\* id of the answer is in the Map's current stack of w when the step ends:
\* what it appends is appended to the stack getStack returns, also when the
\* stack it read before the query was emptied and deleted meanwhile.
C31_AppendsToCurrentStack ==
  [][lastOp'.op = "backfilled" =>
       \A t \in Range(lastOp'.tabs) : Includes(stacks'[lastOp'.w], t)]_vars

(***************************************************************************)
(* Claims about the router                                                 *)
(***************************************************************************)

\* C4: a finalize request that carries index 0 (and no tab id) ends without
\* a call of chrome.tabs.update, whatever the current window's stack holds.
C4_IndexZeroCancels ==
  (out.src = "finalize" /\ out.msg.hasIndex /\ out.msg.index = 0 /\ out.msg.tabId = NoTab)
    => out.tab = NoTab

\* a finalize request with index 0 has ended in a window with three tabs
C4_Witness ==
  /\ out.src = "finalize"
  /\ out.msg.hasIndex /\ out.msg.index = 0 /\ out.msg.tabId = NoTab
  /\ out.w # NoWin
  /\ Len(stacks[out.w]) = 3

\* C5: the step in which a finalize request with index k, 1 <= k < length
\* of the current window's stack, reads that stack activates the tab at
\* position k of it (position 0 being the current tab) and nothing else.
C5_ActivatesPositionK ==
  [][(/\ out'.src = "finalize"
      /\ out'.msg.hasIndex /\ out'.msg.tabId = NoTab
      /\ out'.w # NoWin
      /\ 1 <= out'.msg.index /\ out'.msg.index < Len(stacks[out'.w]))
       => /\ out'.tab = stacks[out'.w][out'.msg.index + 1]
          /\ out'.tab = stacks'[out'.w][out'.msg.index + 1]]_vars

\* a finalize request with index 2 has activated the last of three tabs
C5_Witness ==
  /\ out.src = "finalize"
  /\ out.msg.hasIndex /\ out.msg.index = 2 /\ out.msg.tabId = NoTab
  /\ out.w # NoWin
  /\ Len(stacks[out.w]) = 3
  /\ out.tab = stacks[out.w][3]

\* C8: a tab-removed event for the tab at position 0 of its window's stack,
\* the window not closing and no replacement pending for the tab, takes the
\* tab out of the stack and activates the tab then at position 0; an event
\* for a tab that is not at position 0 activates nothing.
C8_RemovedActiveFallsBack ==
  [][out'.src = "removed" =>
       LET w == out'.w
           t == out'.t
       IN IF out'.sync
          THEN /\ (Len(stacks[w]) > 0 /\ stacks[w][1] = t /\ ~out'.closing /\ t \notin pending)
                    => /\ stacks'[w] = Tail(stacks[w])
                       /\ out'.tab = IF Len(stacks'[w]) > 0 THEN stacks'[w][1] ELSE NoTab
               /\ (Len(stacks[w]) = 0 \/ stacks[w][1] # t) => out'.tab = NoTab
          ELSE \* the event arrived before the load: no stack held a tab
               out'.tab = NoTab]_vars

\* the scenario's last step: from [5, 7] the active tab 5 was removed and
\* tab 7 activated
C8_Witness ==
  /\ out.src = "removed"
  /\ out.sync /\ ~out.closing
  /\ out.t = 5
  /\ stacks[out.w] = <<7>>
  /\ out.tab = 7

(***************************************************************************)
(* Claims about the favicon store                                          *)
(***************************************************************************)
FavKeys == {[ns |-> "url", key |-> u] : u \in Urls} \cup {[ns |-> "host", key |-> h] : h \in Hosts}

\* C6: however many resolve calls for one key (an icon URL, or a hostname)
\* overlap, one fetch for the key is in flight and every call awaits its
\* promise; the step in which the fetch settles hands its one result to all
\* of them and deletes the key's pending entry.
C6_SingleFlight ==
  /\ [](\A f \in FavKeys :
          /\ CopiesIn(f, fetching) <= 1
          /\ CopiesIn(f, callers) > 0 => CopiesIn(f, fetching) = 1
          /\ CopiesIn(f, fetching) = 1 <=> f.key \in Fav.pend[f.ns])
  /\ [][got'.kind = "settled" =>
          LET f == [ns |-> got'.ns, key |-> got'.key]
          IN /\ got'.n = CopiesIn(f, callers)
             /\ CopiesIn(f, callers') = 0
             /\ CopiesIn(f, fetching') = 0
             /\ IF f.ns = "url" THEN f.key \notin pendingByUrl' ELSE f.key \notin pendingByHost']_vars

\* a fetch settled with two resolve calls awaiting it
C6_Witness == got.kind = "settled" /\ got.n = 2

\* C7: a resolve call that reads a cache entry at or after its expiry
\* deletes the entry and starts a fetch, returning nothing from the cache;
\* a value a resolve call returns from the cache belongs to an entry that
\* expires later than the time of the read.
C7_ExpiredIsAbsent ==
  [][LET map == IF got'.ns = "url" THEN byUrl ELSE byHost
         mapAfter == IF got'.ns = "url" THEN byUrl' ELSE byHost'
         f == [ns |-> got'.ns, key |-> got'.key]
     IN /\ (got'.kind \in {"hit", "join", "fetch"} /\ got'.key \in DOMAIN map
              /\ map[got'.key].expiresAt <= DateNow)
             => /\ got'.key \notin DOMAIN mapAfter
                /\ got'.kind = "fetch"
                /\ got'.value = Undefined
                /\ CopiesIn(f, fetching') = CopiesIn(f, fetching) + 1
        /\ got'.kind = "hit"
             => /\ got'.key \in DOMAIN map
                /\ map[got'.key].expiresAt > DateNow
                /\ got'.value = map[got'.key].dataUri]_vars

\* a resolve call found an expired entry, deleted it and started a fetch
C7_Witness == got.kind = "fetch" /\ got.expired /\ clock >= 1

\* C18: when the fetch of a tab's icon URL fails, the resolve calls that
\* awaited it go on to the hostname candidates: they are served the
\* hostname's cached value if there is one, and otherwise await a fetch for
\* the hostname (the primary service, then the secondary); they are not
\* handed null while a candidate is untried.
C18_FallsBackToServices ==
  [][(got'.kind = "settled" /\ got'.ns = "url" /\ got'.value = Null) =>
       \E h \in Hosts :
         LET f == [ns |-> "host", key |-> h]
             cached == readCache(byHost, h).value
         IN IF cached # Undefined
            THEN got'.value = cached
            ELSE /\ CopiesIn(f, fetching') = 1
                 /\ CopiesIn(f, callers') = CopiesIn(f, callers) + got'.n]_vars

\* C19: when the fetch of a tab's icon URL U succeeds, the entry of U in
\* the exact-source cache and the entry of the tab's hostname H in the
\* hostname cache both hold the fetched icon, so that a later tab of H with
\* another or no icon URL is served from the cache.
C19_WritesBothCaches ==
  [][(got'.kind = "settled" /\ got'.ns = "url" /\ got'.value # Null) =>
       /\ got'.key \in DOMAIN byUrl'
       /\ byUrl'[got'.key].dataUri = got'.value
       /\ \E h \in Hosts :
            /\ h \in DOMAIN byHost'
            /\ byHost'[h].dataUri = got'.value
            /\ byHost'[h].expiresAt > DateNow]_vars

\* C20: when the last fetch candidate for a tab has failed, the resolve
\* calls are handed null and the hostname cache holds a null entry for the
\* tab's hostname that expires CACHE_TTL_MS after the failure.
C20_NegativeHostEntry ==
  [][(got'.kind = "settled" /\ got'.value = Null) =>
       \E h \in Hosts :
         /\ got'.ns = "host" => h = got'.key
         /\ h \in DOMAIN byHost'
         /\ byHost'[h] = [dataUri |-> Null, expiresAt |-> DateNow + CACHE_TTL_MS]]_vars

\* C21: a resolve call for a key whose cache entry is negative (null) and
\* not yet expired returns null and starts no fetch; a resolve call that
\* finds the negative entry at or after its expiry starts a new fetch.
C21_NegativeEntryNoRetry ==
  [][LET map == IF got'.ns = "url" THEN byUrl ELSE byHost
         f == [ns |-> got'.ns, key |-> got'.key]
     IN (got'.kind \in {"hit", "join", "fetch"} /\ got'.key \in DOMAIN map
           /\ map[got'.key].dataUri = Null)
          => IF map[got'.key].expiresAt > DateNow
             THEN /\ got'.kind = "hit"
                  /\ got'.value = Null
                  /\ fetching' = fetching
                  /\ callers' = callers
             ELSE /\ got'.kind = "fetch"
                  /\ CopiesIn(f, fetching') = CopiesIn(f, fetching) + 1]_vars

\* a resolve call was answered null from the negative entry a failed fetch
\* wrote (its expiry is a whole TTL after the failure)
C21_Witness ==
  /\ got.kind = "hit"
  /\ got.value = Null
  /\ LET map == IF got.ns = "url" THEN byUrl ELSE byHost
     IN /\ got.key \in DOMAIN map
        /\ map[got.key].dataUri = Null
        /\ map[got.key].expiresAt >= CACHE_TTL_MS

\* C22: each map holds at most its maximum entry count at all times; a
\* cache write keeps the entries of the written map unchanged except for
\* the ones it removes, removes no entry that expires later than one it
\* keeps, removes unexpired entries only while the map is over its cap, and
\* leaves the other map as it was.
C22_CapEvictsEarliest ==
  /\ [](/\ Cardinality(DOMAIN byUrl) <= maxEntries.url
        /\ Cardinality(DOMAIN byHost) <= maxEntries.host)
  /\ [][got'.kind = "settled" =>
          LET ns == got'.ns
              old == IF ns = "url" THEN byUrl ELSE byHost
              kept == IF ns = "url" THEN byUrl' ELSE byHost'
              set == MapSet(old, got'.key,
                            [dataUri |-> got'.value, expiresAt |-> DateNow + CACHE_TTL_MS])
              removed == DOMAIN set \ DOMAIN kept
          IN /\ DOMAIN kept \subseteq DOMAIN set
             /\ \A k \in DOMAIN kept : kept[k] = set[k]
             /\ \A r \in removed, k \in DOMAIN kept :
                  set[r].expiresAt <= kept[k].expiresAt
             /\ \A r \in removed :
                  set[r].expiresAt <= DateNow
                    \/ Cardinality(DOMAIN kept) = maxEntries[ns]
             /\ IF ns = "url" THEN byHost' = byHost ELSE byUrl' = byUrl]_vars

\* a write took its map over the cap of one entry and the stored entry,
\* which expires first, was removed for it (nothing had expired yet)
C22_Witness ==
  /\ got.kind = "settled"
  /\ got.ns = "url"
  /\ got.removed = 1
  /\ maxEntries.url = 1
  /\ clock = 0
  /\ DOMAIN byUrl = {got.key}

(***************************************************************************)
(* Claims about the HUD                                                    *)
(***************************************************************************)
\* the session is Active: sessionActive in background.ts; in content.ts the
\* overlay is visible (the branch of its keydown handler that steps)
Active == IF script = BackgroundTs THEN sessionActive ELSE visible

\* C9: with a snapshot of n items, a non-repeat press of the chord in an
\* Active session moves the selection by +1, or -1 with the secondary
\* modifier, modulo n (it wraps, it does not clamp), and the release sends
\* finalize with the selection.
C9_StepWrapsModulo ==
  [][/\ (hudOut'.ev = "press" /\ Active /\ Len(items) > 0)
          => index' = (index + hudOut'.delta) % Len(items)
     /\ (hudOut'.ev = "release" /\ hudOut'.sent # NoSend) => hudOut'.sent = index]_vars

\* C10: when the chord was pressed once during a hold of the modifier that
\* began with the HUD idle, and the modifier was released before the reveal
\* timer fired, then once the snapshot (of at least one item) has arrived,
\* whether before or after the release, the release has sent finalize with
\* the one-step selection and the overlay was not shown.
C10_TapFinalizes ==
  (tap.clean /\ tap.presses = 1 /\ tap.released /\ tap.items >= 1 /\ ~tap.fired)
    => /\ tap.sent = (tap.delta + tap.items) % tap.items
       /\ ~tap.shown

\* C12: whenever a session is Active and the HUD holds a non-empty item
\* list, the selection is a position of that list: 0 <= index < itemCount,
\* after forward steps, backward steps and the replay of pending moves.
C12_IndexInRange ==
  (Active /\ Len(items) > 0) => (0 <= index /\ index < Len(items))

\* a backward step from the first of three items has wrapped to the last
C12_Witness ==
  /\ script = BackgroundTs
  /\ sessionActive
  /\ Len(items) = 3
  /\ hudOut.ev = "press"
  /\ hudOut.delta = -1
  /\ index = 2
  /\ tap.presses = 2
  /\ tap.delta = 1

\* C32: at most one snapshot request is in flight at any time: a non-repeat
\* chord press handled while a request is in flight sends no request and
\* only adds its signed step to pendingMoves, whatever the order of the
\* presses, the releases and the responses.
C32_OneSnapshotRequest ==
  [][/\ BagCardinality(requests') <= 1
     /\ (hudOut'.ev = "press" /\ requests # EmptyBag)
          => /\ requests' = requests
             /\ pendingMoves' = pendingMoves + hudOut'.delta]_vars

\* C33: a snapshot response that arrives after the release block has reset
\* the session that asked for it is discarded: the session does not become
\* Active, no reveal timer is started, the step flag is not set and the
\* items and the selection are left as they are.
C33_LateSnapshotDiscarded ==
  [][(hudOut'.ev = "snapshot" /\ ~live)
       => /\ sessionActive' = sessionActive
          /\ hudTimer' = hudTimer
          /\ cycled' = cycled
          /\ items' = items
          /\ index' = index]_vars

\* C34: when the snapshot arrives for an open session (initializing, the
\* request not outlived by a release): with no item the session is Idle,
\* pendingMoves is 0 and no reveal timer is started; with n >= 1 items the
\* session is Active, one reveal timer is set, and the selection is the p
\* replayed steps from 0, that is p modulo n, with pendingMoves back at 0.
C34_SnapshotOpensSession ==
  [][(hudOut'.ev = "snapshot" /\ live /\ initializing)
       => /\ ~initializing'
          /\ pendingMoves' = 0
          /\ IF hudOut'.n < 1
             THEN /\ ~sessionActive'
                  /\ hudTimer' = hudTimer
             ELSE /\ sessionActive'
                  /\ hudTimer'
                  /\ Len(items') = hudOut'.n
                  /\ index' = hudOut'.delta % hudOut'.n]_vars

\* two backward presses were replayed over a snapshot of three items
C34_Witness ==
  /\ hudOut.ev = "snapshot"
  /\ hudOut.delta = -2
  /\ hudOut.n = 3
  /\ Len(items) = 3
  /\ index = 1
  /\ sessionActive
  /\ hudTimer
  /\ pendingMoves = 0

\* C35: when the release block of a key-up runs (no modifier code tracked,
\* modifier flag of the event false), the reveal timer is cancelled, the
\* overlay is hidden and sessionActive, pendingMoves, initializing and cycled
\* are cleared; finalize is sent, once and with the selection, if and only
\* if a step occurred in the session: not without a chord press since the
\* last release, and always for an Active session that had one.
C35_ReleaseFinalizesOnce ==
  [][hudOut'.ev = "release"
       => /\ ~hudTimer' /\ ~visible'
          /\ ~sessionActive' /\ pendingMoves' = 0 /\ ~initializing' /\ ~cycled'
          /\ hudOut'.sent # NoSend => (hudOut'.sent = index /\ pressed)
          /\ (sessionActive /\ pressed) => hudOut'.sent # NoSend]_vars

\* C36: the overlay becomes visible only when the reveal timer fires while a
\* modifier code is tracked as held, the session is Active and the overlay
\* is not shown yet; whenever the overlay is visible the session is Active;
\* after the release block the overlay is hidden.
C36_VisibleOnlyByTimer ==
  [][/\ (visible' /\ ~visible)
          => (hudTimer /\ ~hudTimer' /\ optionKeys # {} /\ held # {} /\ sessionActive)
     /\ visible' => sessionActive'
     /\ hudOut'.ev = "release" => ~visible']_vars

\* C37: when the page loses the focus, the HUD clears its tracking of the
\* modifier, cancels the reveal timer, hides the overlay and is Idle, and
\* sends no finalize; and no finalize is sent for the interrupted session
\* by a later key event either (until a chord press opens a new session).
C37_FocusLossResets ==
  [][/\ hudOut'.ev = "blur"
          => /\ optionKeys' = {}
             /\ ~hudTimer'
             /\ ~visible'
             /\ ~InSession'
             /\ hudOut'.sent = NoSend
     /\ interrupted' => hudOut'.sent = NoSend]_vars

\* C38: with both modifier keys down, the key-up of one of them does not end
\* the session: no finalize is sent, the session state, the timer and the
\* overlay are kept, and the tracked codes lose the released one only; the
\* release block of a key-up runs only when no code is tracked and the
\* modifier flag of the event is false.
C38_OneOfTwoReleased ==
  [][/\ (Cardinality(held) = 2 /\ Cardinality(held') = 1)
          => /\ hudOut'.ev = "keyup"
             /\ hudOut'.sent = NoSend
             /\ optionKeys' = optionKeys \ (held \ held')
             /\ UNCHANGED <<sessionActive, cycled, pendingMoves, initializing,
                            hudTimer, visible, items, index>>
     /\ hudOut'.ev = "release" => (optionKeys' = {} /\ held' = {})]_vars

\* one of two tracked modifier keys was released in an Active session
C38_Witness ==
  /\ hudOut.ev = "keyup"
  /\ sessionActive
  /\ cycled
  /\ Cardinality(held) = 1
  /\ optionKeys = held
  /\ index = 1

\* C40: from the moment a snapshot makes the session Active with a modifier
\* key down, the overlay eventually becomes visible unless the modifier is
\* released first, whether the modifier's key-down was seen or only the
\* modifier flag of the chord event, and whatever other keys go down
\* meanwhile.
C40_OverlayEventuallyShown ==
  (hudOut.ev = "snapshot" /\ sessionActive /\ held # {}) ~> (visible \/ held = {})

(***************************************************************************)
(* Claims about getStack's result                                          *)
(***************************************************************************)

\* C11: the array getStack(w) returned is a copy: a later operation of the
\* store leaves the contents of the returned array as they were, and a
\* change the caller makes to the returned array leaves the store's stacks
\* as they were.
C11_GetStackCopies ==
  [][/\ (view.w # NoWin /\ lastOp'.op \notin {"getStack", "pop"}) => Returned' = Returned
     /\ lastOp'.op = "pop" => stacks' = stacks]_vars

(***************************************************************************)
(* Claims about seedAll                                                    *)
(***************************************************************************)

\* C16: when a run of seedAll completes, every tab of every open window is
\* in its window's stack (the current window, which is asked for first,
\* among them).
C16_SeedsEveryWindow ==
  [][SeedCompletes =>
       \A w \in WindowIds : \A i \in DOMAIN browser[w] :
         Includes(stacks'[w], browser[w][i])]_vars

\* C17: a seedAll call made while a run is in progress joins that run (it
\* starts no window query of its own and changes no stack), and a run that
\* completes after an earlier run completed, the host's windows and tabs
\* being the same, leaves every stack as it was.
C17_SeedSingleFlightIdempotent ==
  [][/\ (lastOp'.op = "seedAll" /\ loaded /\ seedStage # "none")
          => seedStage' = seedStage /\ stacks' = stacks
     /\ (SeedCompletes /\ seeded) => stacks' = stacks]_vars

\* C24: whenever no operation is suspended, a window's non-empty stack has
\* the window's currently active tab at position 0: also when the window
\* was seeded or backfilled and no activation event reported its active tab.
C24_HeadIsActiveTab ==
  Settled => \A w \in WindowIds : stacks[w] # <<>> => stacks[w][1] = activeTab[w]

(***************************************************************************)
(* Claims about a replaced tab                                             *)
(***************************************************************************)

\* C23: for the tab-replaced and tab-removed events about one old tab, in
\* either order of delivery and with their handlers' awaits interleaved in
\* any way, the remove handler activates no fallback tab, and once both
\* handlers have run to the end the old id is not in the window's stack and
\* the new id is in it exactly once.
C23_ReplacedCountedOnce ==
  /\ pair.activated = NoTab
  /\ PairHandled =>
       /\ ~Includes(stacks[pair.w], pair.old)
       /\ Len(SelectSeq(stacks[pair.w], LAMBDA x : x = pair.new)) = 1

(***************************************************************************)
(* Claims about persistence of the MRU store                               *)
(***************************************************************************)

\* C25: at any time the store has at most one pending persistence timeout
\* and at most one storage write in flight, however mutations, timer
\* expiry, flushPersist calls and write completions interleave.
C25_OneTimerOneWrite == timers <= 1 /\ Len(writes) <= 1

\* C26: when a flushPersist() call resolves after a write that succeeded,
\* the durable document is the serialization of the stacks as they were
\* when flushPersist was called.
C26_FlushWritesAll ==
  [][lastOp'.op = "written" =>
       \A f \in flushes \ flushes' : durable' = f.doc]_vars

\* C27: while a timer is pending or a write is in flight, either a further
\* mutation is made or storage eventually holds the serialization of the
\* stacks; the write that lands when no mutation followed it leaves storage
\* with exactly the non-empty stacks; mutations made while a timer is
\* pending set no second timer and start no write, and the timer starts one.
C27_DebouncedWriteHappens ==
  /\ [](persistTimer \/ writes # <<>>
          => <>(Persisted \/ lastOp.op \in {"touch", "remove"}))
  /\ [][/\ (lastOp'.op = "written" /\ ~persistTimer /\ Len(writes) = 1) => Persisted'
        /\ (lastOp'.op \in {"touch", "remove"} /\ persistTimer)
             => persistTimer' /\ timers' = timers /\ writes' = writes
        /\ lastOp'.op = "timer"
             => timers' = 0 /\ Len(writes') = Len(writes) + 1]_vars

\* two touches in one debounce window, then the single write has landed
C27_Witness ==
  /\ lastOp.op = "written" /\ writes = <<>> /\ ~persistTimer
  /\ durable = [w \in {1} |-> <<3, 5>>]

\* C28: the storage read is issued once however many operations call
\* ensureLoaded while it is pending, and when it calls back a window whose
\* stack in memory is non-empty keeps it, while every other window gets
\* the stored list without its non-integer and repeated entries (or stays
\* as it is when nothing is left of the stored list).
C28_LoadOnceKeepsStacks ==
  /\ [](reads <= 1)
  /\ [][lastOp'.op = "load" =>
         \A w \in WindowIds :
           LET raw == StoredAs(durable)[w]
               now == stacks'[w]
           IN IF stacks[w] # <<>> \/ Range(raw) \subseteq {NotInt}
              THEN now = stacks[w]
              ELSE /\ NoDup(now)
                   /\ Range(now) = Range(raw) \ {NotInt}
                   /\ \A i, j \in DOMAIN now :
                        i < j => IndexOf(raw, now[i]) < IndexOf(raw, now[j])]_vars

\* the read called back while a call was waiting and a window had an empty
\* stack in memory: the window holds the stored list 5, 3, 5, 7 as 5, 3, 7
C28_Witness ==
  /\ lastOp.op = "load" /\ waiters # <<>> /\ reads = 1
  /\ 1 \in DOMAIN durable /\ durable[1] = <<5, 3, 5, 7>>
  /\ stacks[1] = <<5, 3, 7>>

\* C29: a failed storage read changes no stack and marks the store loaded,
\* a failed write changes no stack and leaves the promise slot free; once
\* loaded, with or without failures before, a touch puts a tab into the
\* stack and every step that changes a stack leaves the debounce timer set.
C29_FailuresBlockNothing ==
  [][/\ lastOp'.op = "loadFailed"
          => stacks' = stacks /\ known' = known /\ loaded' /\ ~loadPromise'
     /\ lastOp'.op = "writeFailed"
          => stacks' = stacks /\ known' = known /\ persistPromise' = NoWrite
     /\ (loaded /\ lastOp'.op = "touch") => stacks'[1] # <<>>
     /\ (lastOp'.op \in {"touch", "remove"} /\ stacks' # stacks) => persistTimer']_vars

\* the read failed, a write failed, and a write made after both has stored
\* the stacks
C29_Witness ==
  /\ failed = {"load", "write"}
  /\ lastOp.op = "written" /\ Persisted /\ stacks[1] # <<>>

(***************************************************************************)
(* Claims about the order of host events                                   *)
(***************************************************************************)

\* C30: of two events delivered for the same window, the store mutation of
\* the one delivered first takes effect first, also when they were
\* delivered before the load finished.
C30_AppliedInDeliveryOrder ==
  \A i, j \in DOMAIN applied :
    (i < j /\ applied[i].w = applied[j].w) => applied[i].n < applied[j].n

(***************************************************************************)
(* Claims about the selection from end to end                              *)
(***************************************************************************)
\* C39: when the HUD finalizes index k >= 1 of a snapshot, the tab that
\* activateAt passes to chrome.tabs.update is the tab of item k of that
\* snapshot, also when the stack holds ids that are no tabs of the window or
\* when the stack changed after the snapshot was taken.
C39_ActivatesSnapshotItem ==
  picked.k >= 1 => picked.tab = shot.ids[picked.k + 1]

====
